---- MODULE Spec2Model ----
(***************************************************************************)
(* A model of async-config (src/src/async-config.js): the deep merge, the  *)
(* construction of the ordered source list, the sequential loader, the     *)
(* protocol resolution of file sources and the load orchestrator.          *)
(*                                                                         *)
(* Strings are sequences of tokens.  A token is one separator character    *)
(* ("/", ".", "-") or a run of other characters that the code never looks  *)
(* inside ("json", "production", "c").  Configuration values are tagged    *)
(* records: t is one of "undef", "null", "num", "str", "arr", "obj",       *)
(* "res" (the result a user protocol handler gave for a payload).          *)
(***************************************************************************)
EXTENDS Integers, Sequences, FiniteSets, TLC

VARIABLES
    mrg,                    \* one call of merge(src, dest): its arguments and its result
    frames,                 \* the calls of load made so far, imports included
    heap,                   \* the options objects, by identity
    envNodeConfig,          \* the memoised NODE_CONFIG environment override
    commandLineNodeConfig,  \* the memoised --NODE_CONFIG override
    procEnv,                \* process.env: NODE_CONFIG and NODE_ENV
    procArgv,               \* process.argv
    store,                  \* the configuration objects that are shared by reference
    hlp                     \* one call of addHelpers and of the get it attaches

vars == <<mrg, frames, heap, envNodeConfig, commandLineNodeConfig, procEnv, procArgv, store, hlp>>

-----------------------------------------------------------------------------
(* Configuration values *)

Undef == [t |-> "undef"]
Null == [t |-> "null"]
Num(n) == [t |-> "num", v |-> n]
Bool(b) == [t |-> "bool", v |-> b]
\* a string "<pre>:<pay>", or the plain string <pay> when pre = ""
Str(pre, pay) == [t |-> "str", pre |-> pre, pay |-> pay]
Arr(es) == [t |-> "arr", e |-> es]
Obj(f) == [t |-> "obj", f |-> f]
EmptyObj == Obj([k \in {} |-> Undef])

IsObj(v) == v.t = "obj"
\* JavaScript truthiness of a value
Truthy(v) ==
    CASE v.t \in {"undef", "null"} -> FALSE
      [] v.t = "num" -> v.v # 0
      [] v.t = "bool" -> v.v
      [] v.t = "str" -> v.pre # "" \/ v.pay # <<>>
      [] OTHER -> TRUE
Has(o, k) == k \in DOMAIN o.f
\* o[k] of JavaScript: undefined for a missing key
Get(o, k) == IF Has(o, k) THEN o.f[k] ELSE Undef

\* an enumeration of a finite set of keys (Object.getOwnPropertyNames order)
RECURSIVE SetToSeq(_)
SetToSeq(S) ==
    IF S = {} THEN <<>>
    ELSE LET k == CHOOSE x \in S : TRUE IN <<k>> \o SetToSeq(S \ {k})

\* Object.defineProperty(dest, prop, {value: v, ...})
DefineProperty(dest, prop, v) ==
    Obj([k \in DOMAIN dest.f \cup {prop} |-> IF k = prop THEN v ELSE dest.f[k]])

\* the guard of merge: both sides non-null, non-array, typeof 'object'
BothPlainObjects(src, dest) == IsObj(src) /\ IsObj(dest)

\* a merge that combines nothing: the later value replaces the earlier one
MergeShallow(src, dest) == src

\* merge(src, dest): for every own property of src, in order,
\* dest[prop] = merge(src[prop], dest[prop]); return dest.  Otherwise src.
RECURSIVE MergeProps(_, _, _)
RECURSIVE merge(_, _)
MergeProps(props, src, dest) ==
    IF props = <<>> THEN dest
    ELSE LET prop == Head(props)
         IN MergeProps(Tail(props), src,
                DefineProperty(dest, prop, merge(src.f[prop], Get(dest, prop))))
merge(src, dest) ==
    IF BothPlainObjects(src, dest)
    THEN MergeProps(SetToSeq(DOMAIN src.f), src, dest)
    ELSE src

-----------------------------------------------------------------------------
(* The values merge is exercised on *)

Keys == {"a", "b"}
Scalars == {Null, Num(1), Num(2), Str("", <<"s">>), Arr(<<Num(1)>>), Arr(<<Num(2), Num(1)>>)}
FlatObjs == {Obj(f) : f \in UNION {[S -> {Num(1), Num(2), Arr(<<Num(1)>>)}] : S \in SUBSET Keys}}
NestedObjs == {Obj(f) : f \in UNION {[S -> FlatObjs \cup {Num(1), Null}] : S \in {{"a"}, {"a", "b"}}}}
DeepObjs == {Obj([k \in {"a"} |-> o]) : o \in {n \in NestedObjs : DOMAIN n.f = {"a"}}}
MergeArgs == {Undef} \cup Scalars \cup FlatObjs \cup {o \in NestedObjs : DOMAIN o.f = {"a"}} \cup DeepObjs

-----------------------------------------------------------------------------
(* Strings and paths (node's posix path module) *)

Max(a, b) == IF a > b THEN a ELSE b
Min(a, b) == IF a < b THEN a ELSE b

\* the last position of token c in s, 0 when there is none
LastIndexOf(s, c) ==
    LET I == {i \in 1..Len(s) : s[i] = c}
    IN IF I = {} THEN 0 ELSE CHOOSE i \in I : \A j \in I : j <= i

\* String.prototype.slice(0, end): a negative end counts from the end of s
slice(s, end) ==
    IF end < 0 THEN SubSeq(s, 1, Max(Len(s) + end, 0))
    ELSE SubSeq(s, 1, Min(end, Len(s)))

\* path.basename(p): what follows the last "/"
basename(p) == SubSeq(p, LastIndexOf(p, "/") + 1, Len(p))

\* path.extname(b): from the last "." on, "" when there is no "." or when the
\* only "." starts the name
extname(b) ==
    LET i == LastIndexOf(b, ".")
    IN IF i <= 1 THEN <<>> ELSE SubSeq(b, i, Len(b))

\* path.dirname(p)
dirname(p) ==
    LET i == LastIndexOf(p, "/")
    IN IF i = 0 THEN <<".">> ELSE IF i = 1 THEN <<"/">> ELSE SubSeq(p, 1, i - 1)

\* process.cwd()
Cwd == <<"/", "w">>

\* the "/"-separated segments of a path
RECURSIVE Segments(_)
Segments(p) ==
    LET I == {i \in 1..Len(p) : p[i] = "/"}
    IN IF I = {} THEN <<p>>
       ELSE LET i == CHOOSE x \in I : \A y \in I : x <= y
            IN <<SubSeq(p, 1, i - 1)>> \o Segments(SubSeq(p, i + 1, Len(p)))

\* "." and empty segments dropped, ".." removing the segment before it
RECURSIVE Normalize(_, _)
Normalize(segs, acc) ==
    IF segs = <<>> THEN acc
    ELSE LET s == Head(segs)
         IN IF s = <<>> \/ s = <<".">> THEN Normalize(Tail(segs), acc)
            ELSE IF s = <<".", ".">>
                 THEN Normalize(Tail(segs), SubSeq(acc, 1, Max(Len(acc) - 1, 0)))
                 ELSE Normalize(Tail(segs), Append(acc, s))

RECURSIVE Join(_)
Join(segs) == IF segs = <<>> THEN <<>> ELSE <<"/">> \o Head(segs) \o Join(Tail(segs))

IsAbsolute(p) == p # <<>> /\ p[1] = "/"

\* path.resolve(from, to): an absolute normalized path
resolve(from, to) ==
    LET base == IF IsAbsolute(to) THEN <<>>
                ELSE IF IsAbsolute(from) THEN from ELSE Cwd \o <<"/">> \o from
        segs == Normalize(Segments(base \o <<"/">> \o to), <<>>)
    IN IF segs = <<>> THEN <<"/">> ELSE Join(segs)

-----------------------------------------------------------------------------
(* The process inputs and the memoised overrides *)

\* a JSON text: well formed (it parses to v) or not
Json(v) == [t |-> "text", ok |-> TRUE, v |-> v]
BadJson == [t |-> "text", ok |-> FALSE]

\* a thrown error or a rejection
Err(code) == [t |-> "error", code |-> code]
IsErr(v) == v.t = "error"

\* parseJSON(json, errorMessage): the parsed value, or a captioned Error
parseJSON(json, caption) == IF json.ok THEN json.v ELSE Err(caption)

\* a command-line argument: "--NODE_CONFIG=<json>" or anything else
ConfigArg(json) == [flag |-> TRUE, json |-> json]
OtherArg == [flag |-> FALSE, json |-> BadJson]

\* getCommandLineNodeConfig(): [memo, ret, parsed]; ret is the value or the
\* thrown error, parsed tells whether this call ran parseJSON
RECURSIVE ScanArgv(_)
ScanArgv(args) ==
    IF args = <<>> THEN Undef
    ELSE IF Head(args).flag THEN parseJSON(Head(args).json, "parse --NODE_CONFIG")
         ELSE ScanArgv(Tail(args))
getCommandLineNodeConfig(memo, argv) ==
    IF memo = Undef
    THEN LET found == ScanArgv(SubSeq(argv, 3, Len(argv)))
         IN IF IsErr(found) THEN [memo |-> memo, ret |-> found, parsed |-> TRUE]
            ELSE IF found = Undef THEN [memo |-> Null, ret |-> Null, parsed |-> FALSE]
            ELSE [memo |-> found, ret |-> found, parsed |-> TRUE]
    ELSE [memo |-> memo, ret |-> memo, parsed |-> FALSE]

\* getEnvNodeConfig(): [memo, ret, parsed]
getEnvNodeConfig(memo, penv) ==
    IF memo = Undef
    THEN IF penv.NODE_CONFIG # Undef
         THEN LET parsed == parseJSON(penv.NODE_CONFIG, "parse NODE_CONFIG")
              IN IF IsErr(parsed) THEN [memo |-> memo, ret |-> parsed, parsed |-> TRUE]
                 ELSE [memo |-> parsed, ret |-> parsed, parsed |-> TRUE]
         ELSE [memo |-> Null, ret |-> Null, parsed |-> FALSE]
    ELSE [memo |-> memo, ret |-> memo, parsed |-> FALSE]

\* a getEnvironment that lets NODE_ENV take precedence over options.environment
getEnvironmentExternalFirst(options, penv) ==
    LET env == IF penv.NODE_ENV # <<>> THEN penv.NODE_ENV ELSE options.environment
    IN IF env # <<>>
       THEN IF env = <<"prod">> THEN <<"production">>
            ELSE IF env = <<"dev">> THEN <<"development">>
            ELSE env
       ELSE <<"development">>

\* getEnvironment(options): options.environment, else NODE_ENV, normalised
getEnvironment(options, penv) ==
    LET env == IF options.environment # <<>> THEN options.environment ELSE penv.NODE_ENV
    IN IF env # <<>>
       THEN IF env = <<"prod">> THEN <<"production">>
            ELSE IF env = <<"dev">> THEN <<"development">>
            ELSE env
       ELSE <<"development">>

-----------------------------------------------------------------------------
(* Options, sources and protocol handlers *)

\* A function value.  kind "provider": an async source provider; "hook": the
\* sources hook; "finalize": the finalize hook; "user": a caller's protocol
\* handler; any other kind: the built-in handler of that name, closed over
\* the directory (and, for import, the options object) of the load that made it.
Provider(beh, v) == [t |-> "fn", kind |-> "provider", beh |-> beh, v |-> v]
Hook(beh, front, back) == [t |-> "fn", kind |-> "hook", beh |-> beh, front |-> front, back |-> back]
Finalizer(beh) == [t |-> "fn", kind |-> "finalize", beh |-> beh]
UserHandler(name, beh) == [t |-> "fn", kind |-> "user", name |-> name, beh |-> beh]
Builtin(name, dir, o) == [t |-> "fn", kind |-> name, dir |-> dir, opts |-> o]

\* a protocols object: protocol name -> handler
PMap(h) == [t |-> "pmap", h |-> h]

\* an options object; Undef (<<>> for environment) is an absent property
Options(environment, excludes, protocols, defaults, overrides, sources, finalize, helpersEnabled) ==
    [environment |-> environment, excludes |-> excludes, protocols |-> protocols,
     defaults |-> defaults, overrides |-> overrides, sources |-> sources,
     finalize |-> finalize, helpersEnabled |-> helpersEnabled]
NoOptions == Options(<<>>, Undef, Undef, Undef, Undef, Undef, Undef, Undef)

\* Object.assign(target, source) on the properties of two maps
Assign(target, source) ==
    [k \in DOMAIN target \cup DOMAIN source |->
        IF k \in DOMAIN source THEN source[k] ELSE target[k]]

BuiltinNames == {"path", "import", "file", "base64", "env", "require", "exec"}

\* the default set of protocols built by load for the directory dir
DefaultProtocols(dir, o) == [n \in BuiltinNames |-> Builtin(n, dir, o)]

\* excludes[name] !== true, the test that keeps a built-in source
Kept(excludes, name) == Get(excludes, name) # Bool(TRUE)

\* pathNoExt = path.slice(0, 0 - ext.length)
PathNoExt(path) == slice(path, 0 - Len(extname(basename(path))))

\* ext, '.json' when the basename has none
ExtOf(path) ==
    LET ext == extname(basename(path))
    IN IF ext = <<>> THEN <<".", "json">> ELSE ext

\* the three file names buildSources derives from the path
BaseFile(path) == Str("", PathNoExt(path) \o ExtOf(path))
EnvFile(path, environment) == Str("", PathNoExt(path) \o <<"-">> \o environment \o ExtOf(path))
LocalFile(path) == Str("", PathNoExt(path) \o <<"-", "local">> \o ExtOf(path))

\* what a sources hook returns: "replace" and "both" a list of their own,
\* "same" the list they were given, "null" null, "zero" the number 0,
\* "empty" the empty string, any other undefined
HookReturn(hook, sources) ==
    CASE hook.beh \in {"replace", "both"} -> Arr(hook.back)
      [] hook.beh = "same" -> Arr(hook.front \o sources \o hook.back)
      [] hook.beh = "null" -> Null
      [] hook.beh = "zero" -> Num(0)
      [] hook.beh = "empty" -> Str("", <<>>)
      [] OTHER -> Undef

\* the list a sources hook was given as the hook leaves it: "replace" does
\* not touch it, "both" unshifts front, the others unshift front and push back
HookEdits(hook, sources) ==
    CASE hook.beh = "replace" -> sources
      [] hook.beh = "both" -> hook.front \o sources
      [] OTHER -> hook.front \o sources \o hook.back

\* a buildSources that appends what the hook returns to the built list
ApplyHookAppend(hook, sources) ==
    IF hook.t # "fn" THEN Arr(sources)
    ELSE LET newSources == HookReturn(hook, sources)
         IN IF newSources.t = "arr" THEN Arr(HookEdits(hook, sources) \o newSources.e)
            ELSE IF newSources.t \notin {"null", "undef"} THEN newSources
            ELSE Arr(HookEdits(hook, sources))

\* lines 162-167: if (typeof options.sources === 'function') { newSources =
\* options.sources(sources); if (newSources != null) sources = newSources }
\* The value buildSources returns.
ApplyHook(hook, sources) ==
    IF hook.t # "fn" THEN Arr(sources)
    ELSE LET newSources == HookReturn(hook, sources)
         IN IF newSources.t \notin {"null", "undef"} THEN newSources
            ELSE Arr(HookEdits(hook, sources))

\* for (const source of sources): an array gives its elements, a string its
\* characters (the tokens of the strings used here are single characters),
\* anything else is not iterable
Iterable(v) == v.t \in {"arr", "str"}
Iterate(v) ==
    IF v.t = "arr" THEN v.e ELSE [i \in 1..Len(v.pay) |-> Str("", <<v.pay[i]>>)]

\* the order in which buildSources concatenates its groups
BuildOrder(defaults, files, env, cli, overrides) ==
    defaults \o files \o env \o cli \o overrides

\* buildSources(path, options): [threw, built, sources, memo, acc]; built is
\* the list handed to the sources hook, sources the list returned, acc what
\* the two accessors did in this call
buildSources(path, options, memo, penv, argv) ==
    LET excludes == options.excludes
        defaults == IF Truthy(options.defaults) THEN options.defaults.e ELSE <<>>
        overrides == IF Truthy(options.overrides) THEN options.overrides.e ELSE <<>>
        environment == getEnvironment(options, penv)
        idle == [called |-> FALSE, parsed |-> FALSE, ret |-> Undef]
        none == [threw |-> Undef, built |-> <<>>, sources |-> Arr(<<>>), memo |-> memo,
                 acc |-> [env |-> idle, cli |-> idle]]
    IN IF ~IsObj(excludes)
       THEN [none EXCEPT !.threw = Err("TypeError")]
       ELSE
       LET files == <<BaseFile(path)>>
                \o (IF Kept(excludes, "env-file") THEN <<EnvFile(path, environment)>> ELSE <<>>)
                \o (IF Kept(excludes, "local-file") THEN <<LocalFile(path)>> ELSE <<>>)
           e == IF Kept(excludes, "env") THEN getEnvNodeConfig(memo.env, penv)
                ELSE [memo |-> memo.env, ret |-> Undef, parsed |-> FALSE]
           memo1 == [memo EXCEPT !.env = e.memo]
           c == IF Kept(excludes, "command-line") THEN getCommandLineNodeConfig(memo.cli, argv)
                ELSE [memo |-> memo.cli, ret |-> Undef, parsed |-> FALSE]
           memo2 == [memo1 EXCEPT !.cli = c.memo]
           built == BuildOrder(defaults, files,
                        IF Kept(excludes, "env") THEN <<e.ret>> ELSE <<>>,
                        IF Kept(excludes, "command-line") THEN <<c.ret>> ELSE <<>>,
                        overrides)
           accEnv == [called |-> Kept(excludes, "env"), parsed |-> e.parsed, ret |-> e.ret]
           accCli == [called |-> Kept(excludes, "command-line"), parsed |-> c.parsed, ret |-> c.ret]
       IN IF IsErr(e.ret)
          THEN [none EXCEPT !.threw = e.ret, !.memo = memo1, !.acc.env = accEnv]
          ELSE IF IsErr(c.ret)
          THEN [none EXCEPT !.threw = c.ret, !.memo = memo2,
                            !.acc = [env |-> accEnv, cli |-> accCli]]
          ELSE [threw |-> Undef, built |-> built,
                sources |-> ApplyHook(options.sources, built), memo |-> memo2,
                acc |-> [env |-> accEnv, cli |-> accCli]]

\* load, lines 343-357: var excludes = null; an array is walked with
\* excludes[exclude] = true on that null (a TypeError on the first element,
\* null left in place for an empty array); a map is kept; absent gives {}
NormaliseExcludes(excludes) ==
    IF Truthy(excludes)
    THEN IF excludes.t = "arr"
         THEN IF Len(excludes.e) > 0 THEN Err("TypeError") ELSE Null
         ELSE excludes
    ELSE EmptyObj

\* load, lines 291-296: the copy is made and dropped, the caller's object is
\* the one load goes on to modify.  [heap, o]: the heap and the object used.
OwnOptions(hp, o) == [heap |-> hp, o |-> o]

\* load, lines 298-360, on the options object o of the heap hp:
\* [threw, heap]
Prelude(path, hp, o) ==
    LET dir == dirname(path)
        given == hp[o].protocols
        protocols == IF Truthy(given) THEN Assign(DefaultProtocols(dir, o), given.h)
                     ELSE DefaultProtocols(dir, o)
        hp1 == [hp EXCEPT ![o].protocols = PMap(protocols)]
        excludes == NormaliseExcludes(hp[o].excludes)
    IN IF IsErr(excludes) THEN [threw |-> excludes, heap |-> hp1]
       ELSE [threw |-> Undef, heap |-> [hp1 EXCEPT ![o].excludes = excludes]]

-----------------------------------------------------------------------------
(* The file system *)

File(json) == [err |-> "", json |-> json]
NoFile(code) == [err |-> code, json |-> BadJson]

D1 == <<"/", "d">>
D2 == <<"/", "e">>
JsonExt == <<".", "json">>
ConfigPath == D1 \o <<"/", "c">> \o JsonExt
ConfigProdPath == D1 \o <<"/", "c", "-", "production">> \o JsonExt
ImportingPath == D1 \o <<"/", "m">> \o JsonExt
ImportedPath == D2 \o <<"/", "i">> \o JsonExt
ImportedProdPath == D2 \o <<"/", "i", "-", "production">> \o JsonExt
ThrowingPath == D1 \o <<"/", "t">> \o JsonExt
RejectingPath == D1 \o <<"/", "r">> \o JsonExt
MalformedPath == D1 \o <<"/", "x">> \o JsonExt
UnreadablePath == D1 \o <<"/", "u">> \o JsonExt
BarePath == D1 \o <<"/", "c">>

\* a file with tagged strings inside nested objects and arrays
DeepPath == D1 \o <<"/", "p">> \o JsonExt
DeepTree ==
    Obj([k \in {"x", "n", "k", "f"} |->
        CASE k = "x" -> Obj([j \in {"y"} |->
                            Arr(<<Str("up", <<"a">>),
                                  Obj([z \in {"z"} |-> Str("upA", <<"b">>)]),
                                  Str("zz", <<"c">>),
                                  Arr(<<Str("env", <<"H">>), Num(4)>>)>>)])
          [] k = "n" -> Str("nul", <<"v">>)
          [] k = "k" -> Str("", <<"plain">>)
          [] k = "f" -> Str("path", <<".", "/", "q">>)])

\* files whose handlers fail: the payload of file: names no file; the
\* handler of eno: is the caller's
FileTagPath == D1 \o <<"/", "f">> \o JsonExt
UserTagPath == D1 \o <<"/", "g">> \o JsonExt

\* fs.readFile(path): the content, or the error code
ReadFile(path) ==
    CASE path = FileTagPath ->
            File(Json(Obj([k \in {"k", "a"} |->
                IF k = "k" THEN Num(1) ELSE Str("file", <<".", "/", "gone">>)])))
      [] path = UserTagPath ->
            File(Json(Obj([k \in {"k", "a", "b"} |->
                CASE k = "k" -> Num(1)
                  [] k = "a" -> Str("eno", <<"x">>)
                  [] k = "b" -> Str("file", <<".", "/", "c">> \o JsonExt)])))
      [] path = ConfigPath ->
            File(Json(Obj([k \in {"a", "b"} |->
                IF k = "a" THEN Num(1) ELSE Str("path", <<".", "/", "x">>)])))
      [] path = ConfigProdPath ->
            File(Json(Obj([k \in {"a", "p"} |->
                IF k = "a" THEN Num(2) ELSE Str("up", <<"v">>)])))
      [] path = ImportingPath ->
            File(Json(Obj([k \in {"i", "q"} |->
                IF k = "i" THEN Str("import", <<".", ".", "/", "e", "/", "i">> \o JsonExt)
                ELSE Arr(<<Str("upA", <<"w">>), Str("zz", <<"v">>)>>)])))
      [] path = ImportedPath ->
            File(Json(Obj([k \in {"o", "e"} |->
                IF k = "o" THEN Str("path", <<".", "/", "y">>) ELSE Num(1)])))
      [] path = ImportedProdPath ->
            File(Json(Obj([k \in {"e"} |-> Num(2)])))
      [] path = ThrowingPath ->
            File(Json(Obj([k \in {"a"} |-> Str("thr", <<"v">>)])))
      [] path = RejectingPath ->
            File(Json(Obj([k \in {"a"} |-> Str("rej", <<"v">>)])))
      [] path = DeepPath -> File(Json(DeepTree))
      [] path = MalformedPath -> File(BadJson)
      [] path = UnreadablePath -> NoFile("EACCES")
      [] OTHER -> NoFile("ENOENT")

-----------------------------------------------------------------------------
(* loadSources and handleProtocols, as steps of one call of load *)

\* the result a handler gave for a payload
Res(name, pay) == [t |-> "res", h |-> name, pay |-> pay]

NoRes == [tree |-> Undef, h |-> <<>>, st |-> <<>>]
Leaf(s, v) == [s |-> s, v |-> v]

\* one activation of loadSources: its list, the index of the source being
\* resolved, mergedConfig, and (at) the indices of the nested lists it is in
Activation(sources, at) == [sources |-> sources, idx |-> 1, merged |-> EmptyObj, at |-> at]

Event(ev, at, i) == [ev |-> ev, at |-> at, i |-> i]

\* a loader in which the earlier source wins: the accumulator merged over the source
handleSourceLoadFirstWins(sourceConfig, mergedConfig) ==
    IF Truthy(sourceConfig) /\ BothPlainObjects(sourceConfig, mergedConfig)
    THEN merge(mergedConfig, sourceConfig)
    ELSE mergedConfig

\* handleSourceLoad(sourceConfig): merge mutates mergedConfig only when both
\* are plain objects; its return value is dropped
handleSourceLoad(sourceConfig, mergedConfig) ==
    IF Truthy(sourceConfig) /\ BothPlainObjects(sourceConfig, mergedConfig)
    THEN merge(sourceConfig, mergedConfig)
    ELSE mergedConfig

Top(fr) == fr.stack[Len(fr.stack)]
CurrentSource(fr) == Top(fr).sources[Top(fr).idx]

RECURSIVE Advance(_)

\* the log with the failure of the source being resolved, if there is one
FailureLogged(fr) ==
    IF fr.stack # <<>> /\ Top(fr).idx <= Len(Top(fr).sources)
    THEN Append(fr.log, Event("fail", Top(fr).at, Top(fr).idx))
    ELSE fr.log

\* a loader that drops a failed source and goes on with the next one
FailAndGoOn(fr, err) ==
    IF fr.stack # <<>> /\ Top(fr).idx <= Len(Top(fr).sources)
    THEN Advance([fr EXCEPT !.stack[Len(fr.stack)].idx = Top(fr).idx + 1,
                            !.res = NoRes, !.log = FailureLogged(fr)])
    ELSE [fr EXCEPT !.pc = "failed", !.out = err, !.stack = <<>>, !.res = NoRes]

\* the load is rejected with err: nothing of it runs any more
Fail(fr, err) ==
    [fr EXCEPT !.pc = "failed", !.out = err, !.stack = <<>>, !.res = NoRes,
               !.log = FailureLogged(fr)]

\* the source at idx has settled with sourceConfig: merge it, move to idx + 1
Contribute(fr, sourceConfig) ==
    LET d == Len(fr.stack)
        act == fr.stack[d]
    IN [fr EXCEPT !.stack[d].merged = handleSourceLoad(sourceConfig, act.merged),
                  !.stack[d].idx = act.idx + 1,
                  !.res = NoRes,
                  !.log = Append(fr.log, Event("merge", act.at, act.idx))]

\* a null or undefined entry: continue
Skip(fr) ==
    LET d == Len(fr.stack)
        act == fr.stack[d]
    IN [fr EXCEPT !.stack[d].idx = act.idx + 1,
                  !.log = Append(fr.log, Event("skip", act.at, act.idx))]

\* a loader that starts a provider and goes on to the next source at once
StartWithoutAwait(fr, pc) ==
    LET d == Len(fr.stack)
        act == fr.stack[d]
    IN IF pc = "provider"
       THEN Advance([fr EXCEPT !.stack[d].idx = act.idx + 1,
                        !.log = Append(fr.log, Event("start", act.at, act.idx))])
       ELSE [fr EXCEPT !.pc = pc, !.log = Append(fr.log, Event("start", act.at, act.idx))]

\* sourceConfig = await ...: the resolution of the source at idx has started
\* and the loop is suspended until it settles
StartAndAwait(fr, pc) ==
    [fr EXCEPT !.pc = pc, !.log = Append(fr.log, Event("start", Top(fr).at, Top(fr).idx))]

\* the loop of loadSources, run up to its next await (or to its return)
Advance(fr) ==
    LET act == Top(fr)
    IN IF act.idx > Len(act.sources) THEN [fr EXCEPT !.pc = "return"]
       ELSE LET source == act.sources[act.idx]
            IN CASE source.t \in {"undef", "null"} -> Advance(Skip(fr))
                 [] source.t = "str" -> StartAndAwait(fr, "read")
                 [] source.t = "arr" ->
                      Advance([fr EXCEPT
                          !.stack = Append(fr.stack,
                                        Activation(source.e, Append(act.at, act.idx))),
                          !.log = Append(fr.log, Event("start", act.at, act.idx))])
                 [] source.t = "fn" ->
                      IF source.beh = "throw" THEN Fail(fr, Err("provider"))
                      ELSE StartAndAwait(fr, "provider")
                 [] source.t = "obj" -> Advance(Contribute(fr, source))
                 [] OTHER -> Fail(fr, Err("invalid-source"))

\* the string leaves of a tree whose protocol is one of names, by position
RECURSIVE Leaves(_, _, _)
Leaves(v, names, at) ==
    CASE v.t = "str" -> IF v.pre \in names THEN {at} ELSE {}
      [] v.t = "obj" -> UNION {Leaves(v.f[k], names, Append(at, k)) : k \in DOMAIN v.f}
      [] v.t = "arr" -> UNION {Leaves(v.e[i], names, Append(at, ToString(i))) : i \in 1..Len(v.e)}
      [] OTHER -> {}

\* the value at a position of a tree
RECURSIVE ValueAt(_, _, _)
ValueAt(v, at, pos) ==
    IF pos = at THEN v
    ELSE IF v.t = "obj"
         THEN LET k == CHOOSE k \in DOMAIN v.f : SubSeq(pos, 1, Len(at) + 1) = Append(at, k)
              IN ValueAt(v.f[k], Append(at, k), pos)
         ELSE LET i == CHOOSE i \in 1..Len(v.e) : SubSeq(pos, 1, Len(at) + 1) = Append(at, ToString(i))
              IN ValueAt(v.e[i], Append(at, ToString(i)), pos)

\* the new tree shortstop builds: each resolved leaf replaced by its result
RECURSIVE Substitute(_, _, _)
Substitute(v, st, at) ==
    IF at \in DOMAIN st THEN st[at].v
    ELSE CASE v.t = "obj" -> Obj([k \in DOMAIN v.f |-> Substitute(v.f[k], st, Append(at, k))])
           [] v.t = "arr" -> Arr([i \in 1..Len(v.e) |-> Substitute(v.e[i], st, Append(at, ToString(i)))])
           [] OTHER -> v

\* the protocols handleProtocols registers: those with a truthy handler
Registered(protocols) ==
    IF Truthy(protocols) THEN {n \in DOMAIN protocols.h : Truthy(protocols.h[n])} ELSE {}

\* handleProtocols(config, path, options): the resolution state it starts
handleProtocols(config, options) ==
    LET names == Registered(options.protocols)
    IN [tree |-> config,
        h |-> IF names = {} THEN <<>> ELSE [n \in names |-> options.protocols.h[n]],
        st |-> [l \in Leaves(config, names, <<>>) |-> Leaf("todo", Undef)]]

-----------------------------------------------------------------------------
(* load *)

\* o without the key k
Without(o, k) == Obj([j \in DOMAIN o.f \ {k} |-> o.f[j]])

\* addHelpers(config, options): val is the enumerable data of the config
\* returned, get tells whether it carries the get function.
\* Object.defineProperty(config, 'get', {enumerable: false, value: get})
\* redefines a property get that the config already has.
addHelpers(config, options) ==
    IF options.helpersEnabled = Bool(FALSE)
    THEN [t |-> "config", val |-> config, get |-> FALSE]
    ELSE [t |-> "config", val |-> Without(config, "get"), get |-> TRUE]

\* the get function itself, as a value
GetFn == [t |-> "fn", kind |-> "get"]

\* curObject[propName] for a truthy curObject: a key of an object (get
\* itself on the config that carries it), undefined on anything else
Index(cur, propName, top) ==
    IF cur.t = "config"
    THEN IF top.get /\ propName = "get" THEN GetFn ELSE Get(top.val, propName)
    ELSE IF IsObj(cur) THEN Get(cur, propName) ELSE Undef

\* get(path), parts = path.split('.'): while (curObject && i < len)
\* curObject = curObject[parts[i++]]; return curObject
RECURSIVE GetWalk(_, _, _)
GetWalk(cur, parts, top) ==
    IF (cur.t = "config" \/ Truthy(cur)) /\ parts # <<>>
    THEN GetWalk(Index(cur, Head(parts), top), Tail(parts), top)
    ELSE cur
get(config, parts) == GetWalk(config, parts, config)

\* a load whose throw before the first await escapes to the caller as an
\* exception, leaving no completion
SyncThrow(fr, err) == [fr EXCEPT !.pc = "threw"]

\* async function load: a throw before the first await rejects the promise
\* the call returns
AsyncThrow(fr, err) == Fail(fr, err)

\* load(path, options) up to its first await: the options it works on, the
\* protocols and excludes stored back, buildSources, and the loop of
\* loadSources started (used is the value buildSources returned, sources its
\* elements).  [heap, memo, frame]
LoadCall(path, hp0, o0, parent, leaf, memo, penv, argv) ==
    LET own == OwnOptions(hp0, o0)
        o == own.o
        pre == Prelude(path, own.heap, o)
        b == buildSources(path, pre.heap[o], memo, penv, argv)
        fr == [path |-> path, opts |-> o, parent |-> parent, leaf |-> leaf,
               pc |-> "run", stack |-> <<>>, res |-> NoRes, out |-> Undef,
               built |-> <<>>, sources |-> <<>>, log |-> <<>>, given |-> hp0[o0],
               fin |-> Undef, acc |-> b.acc, used |-> Undef]
    IN IF IsErr(pre.threw)
       THEN [heap |-> pre.heap, memo |-> memo, frame |-> AsyncThrow(fr, pre.threw)]
       ELSE IF IsErr(b.threw)
       THEN [heap |-> pre.heap, memo |-> b.memo, frame |-> AsyncThrow(fr, b.threw)]
       ELSE IF ~Iterable(b.sources)
       THEN [heap |-> pre.heap, memo |-> b.memo,
             frame |-> Fail([fr EXCEPT !.built = b.built, !.used = b.sources],
                            Err("TypeError"))]
       ELSE [heap |-> pre.heap, memo |-> b.memo,
             frame |-> Advance([fr EXCEPT !.stack = <<Activation(Iterate(b.sources), <<>>)>>,
                                          !.built = b.built, !.used = b.sources,
                                          !.sources = Iterate(b.sources)])]

\* import options that keep the finalize hook of the enclosing load
ImportOptionsKeepFinalize(options) ==
    [options EXCEPT
        !.sources = Undef, !.defaults = Undef, !.overrides = Undef,
        !.excludes = Obj(Assign(IF IsObj(options.excludes) THEN options.excludes.f ELSE <<>>,
                                [n \in {"env", "command-line"} |-> Bool(TRUE)])),
        !.helpersEnabled = Bool(FALSE)]

\* import options that keep the excludes of the enclosing load as they are
ImportOptionsSameExcludes(options) ==
    [options EXCEPT
        !.sources = Undef, !.defaults = Undef, !.overrides = Undef, !.finalize = Undef,
        !.helpersEnabled = Bool(FALSE)]

\* the options the import handler derives from the enclosing options
ImportOptions(options) ==
    [options EXCEPT
        !.sources = Undef, !.defaults = Undef, !.overrides = Undef, !.finalize = Undef,
        !.excludes = Obj(Assign(IF IsObj(options.excludes) THEN options.excludes.f ELSE <<>>,
                                [n \in {"env", "command-line"} |-> Bool(TRUE)])),
        !.helpersEnabled = Bool(FALSE)]

Memo == [env |-> envNodeConfig, cli |-> commandLineNodeConfig]
TopFrames == {f \in 1..Len(frames) : frames[f].parent = 0}
Settled(f) == frames[f].pc \in {"done", "failed"}

\* a caller calls load(path, options) with a new options object
CallLoadWith(paths, presets) ==
    \E path \in paths, preset \in presets :
        LET c == LoadCall(path, Append(heap, preset), Len(heap) + 1, 0, <<>>,
                          Memo, procEnv, procArgv)
        IN /\ frames' = Append(frames, c.frame)
           /\ heap' = c.heap
           /\ envNodeConfig' = c.memo.env
           /\ commandLineNodeConfig' = c.memo.cli
           /\ UNCHANGED <<mrg, procEnv, procArgv, store, hlp>>

Update(f, fr) ==
    /\ frames' = [frames EXCEPT ![f] = fr]
    /\ UNCHANGED <<mrg, heap, envNodeConfig, commandLineNodeConfig, procEnv, procArgv, store, hlp>>

\* a loadFileSource that rethrows every read error, ENOENT included
loadFileSourceStrict(fr, options) ==
    LET file == ReadFile(CurrentSource(fr).pay)
        config == parseJSON(file.json, "parse file")
    IN IF file.err # "" THEN Fail(fr, Err(file.err))
       ELSE IF IsErr(config) THEN Fail(fr, config)
       ELSE [fr EXCEPT !.pc = "resolve", !.res = handleProtocols(config, options)]

\* loadFileSource(path, options) once readFile has called back: ENOENT gives
\* undefined, another read error or malformed JSON is rethrown, a parsed
\* config goes to handleProtocols
loadFileSource(fr, options) ==
    LET file == ReadFile(CurrentSource(fr).pay)
        config == parseJSON(file.json, "parse file")
    IN IF file.err = "ENOENT" THEN Advance(Contribute(fr, Undef))
       ELSE IF file.err # "" THEN Fail(fr, Err(file.err))
       ELSE IF IsErr(config) THEN Fail(fr, config)
       ELSE [fr EXCEPT !.pc = "resolve", !.res = handleProtocols(config, options)]

\* loadFileSource: readFile calls back
ReadDone ==
    \E f \in 1..Len(frames) :
    /\ frames[f].pc = "read"
    /\ Update(f, loadFileSource(frames[f], heap[frames[f].opts]))

\* what the wrapper registered by handleProtocols does with the call
\* handler(value) of a handler that is not import: the leaf's new state
Dispatch(handler, pay) ==
    CASE handler.kind = "path" -> Leaf("ok", Str("", resolve(handler.dir, pay)))
      [] handler.kind = "require" -> Leaf("ok", Res("require", resolve(handler.dir, pay)))
      [] handler.kind \in {"file", "base64", "env", "exec"} -> Leaf("wait", Undef)
      [] handler.kind = "user" ->
            CASE handler.beh = "sync" -> Leaf("ok", Res(handler.name, pay))
              [] handler.beh \in {"promise", "reject", "reject-enoent"} -> Leaf("wait", Undef)
              [] handler.beh = "throw" -> Leaf("lost", Err("thrown"))
              [] handler.beh = "throw-enoent" -> Leaf("lost", Err("ENOENT"))
              [] OTHER -> Leaf("lost", Err("TypeError"))

\* shortstop calls the handler of a leaf
InvokeHandler ==
    \E f \in 1..Len(frames) : \E l \in DOMAIN frames[f].res.st :
    /\ frames[f].pc = "resolve"
    /\ frames[f].res.st[l].s = "todo"
    /\ LET fr == frames[f]
           leaf == ValueAt(fr.res.tree, <<>>, l)
           handler == fr.res.h[leaf.pre]
       IN /\ handler.kind # "import"
          /\ Update(f, [fr EXCEPT !.res.st[l] = Dispatch(handler, leaf.pay)])

\* shortstop calls the import handler of a leaf: a nested call of load
InvokeImport ==
    \E f \in 1..Len(frames) : \E l \in DOMAIN frames[f].res.st :
    /\ frames[f].pc = "resolve"
    /\ frames[f].res.st[l].s = "todo"
    /\ LET fr == frames[f]
           leaf == ValueAt(fr.res.tree, <<>>, l)
           handler == fr.res.h[leaf.pre]
       IN /\ handler.kind = "import"
          /\ LET importPath == resolve(handler.dir, leaf.pay)
                 c == LoadCall(importPath, Append(heap, ImportOptions(heap[handler.opts])),
                               Len(heap) + 1, f, l, Memo, procEnv, procArgv)
             IN /\ frames' = Append([frames EXCEPT ![f].res.st[l] = Leaf("wait", Undef)],
                                    c.frame)
                /\ heap' = c.heap
                /\ envNodeConfig' = c.memo.env
                /\ commandLineNodeConfig' = c.memo.cli
                /\ UNCHANGED <<mrg, procEnv, procArgv, store, hlp>>

\* the promise a handler returned settles
SettleHandler ==
    \E f \in 1..Len(frames) : \E l \in DOMAIN frames[f].res.st :
    /\ frames[f].pc = "resolve"
    /\ frames[f].res.st[l].s = "wait"
    /\ LET fr == frames[f]
           leaf == ValueAt(fr.res.tree, <<>>, l)
           handler == fr.res.h[leaf.pre]
       IN /\ handler.kind # "import"
          /\ Update(f, [fr EXCEPT !.res.st[l] =
                CASE handler.kind = "file" ->
                        LET file == ReadFile(resolve(handler.dir, leaf.pay))
                        IN IF file.err # "" THEN Leaf("err", Err(file.err))
                           ELSE Leaf("ok", Res("file", resolve(handler.dir, leaf.pay)))
                  [] handler.kind = "user" /\ handler.beh = "reject" ->
                        Leaf("err", Err("handler"))
                  [] handler.kind = "user" /\ handler.beh = "reject-enoent" ->
                        Leaf("err", Err("ENOENT"))
                  [] handler.kind = "user" -> Leaf("ok", Res(handler.name, leaf.pay))
                  [] OTHER -> Leaf("ok", Res(handler.kind, leaf.pay))])

\* the nested load of an import completes
ImportDone ==
    \E f \in 1..Len(frames) : \E l \in DOMAIN frames[f].res.st :
    /\ frames[f].pc = "resolve"
    /\ frames[f].res.st[l].s = "wait"
    /\ \E c \in 1..Len(frames) :
        /\ frames[c].parent = f /\ frames[c].leaf = l /\ Settled(c)
        /\ Update(f, [frames[f] EXCEPT !.res.st[l] =
                IF frames[c].pc = "done" THEN Leaf("ok", frames[c].out.val)
                ELSE Leaf("err", frames[c].out)])

\* loadFileSource returns the promise of handleProtocols from inside its try
\* without awaiting it (line 176): its rejection does not pass through the
\* catch, whatever code the error carries, and rejects loadFileSource
handleProtocolsRejected(fr, err) == Fail(fr, err)

\* resolver.resolve calls back with an error: the load is rejected
ResolveFail ==
    \E f \in 1..Len(frames) :
    /\ frames[f].pc = "resolve"
    /\ \E l \in DOMAIN frames[f].res.st :
        /\ frames[f].res.st[l].s = "err"
        /\ Update(f, handleProtocolsRejected(frames[f], frames[f].res.st[l].v))

\* resolver.resolve calls back with the new tree: the file has settled
ResolveOk ==
    \E f \in 1..Len(frames) :
    /\ frames[f].pc = "resolve"
    /\ \A l \in DOMAIN frames[f].res.st : frames[f].res.st[l].s = "ok"
    /\ LET fr == frames[f]
       IN Update(f, Advance(Contribute(fr, Substitute(fr.res.tree, fr.res.st, <<>>))))

\* the promise of an async provider settles
ProviderSettle ==
    \E f \in 1..Len(frames) :
    /\ frames[f].pc = "provider"
    /\ LET fr == frames[f]
           source == CurrentSource(fr)
       IN /\ source.beh \in {"resolve", "reject"}
          /\ Update(f, IF source.beh = "resolve" THEN Advance(Contribute(fr, source.v))
                       ELSE Fail(fr, Err("provider")))

\* a loadSources that ends without returning its mergedConfig
loadSourcesReturnsNothing(act) == Undef

\* return mergedConfig (line 215): what an activation of loadSources returns
loadSourcesReturn(act) == act.merged

\* a nested loadSources has returned: its mergedConfig is the contribution
NestedReturn ==
    \E f \in 1..Len(frames) :
    /\ frames[f].pc = "return"
    /\ Len(frames[f].stack) > 1
    /\ LET fr == frames[f]
           d == Len(fr.stack)
       IN Update(f, Advance(Contribute([fr EXCEPT !.stack = SubSeq(fr.stack, 1, d - 1)],
                                       loadSourcesReturn(fr.stack[d]))))

\* what a finalize hook resolves with: "replace" gives a new object, "zero"
\* the number 0, "null" null, the others undefined
Yielded(beh) ==
    CASE beh = "replace" -> Obj([k \in {"finalized"} |-> Bool(TRUE)])
      [] beh = "zero" -> Num(0)
      [] beh = "null" -> Null
      [] OTHER -> Undef

\* the config it was given as the hook leaves it: "mutate", "zero" and "null"
\* set finalized on it
Mutated(beh, config) ==
    IF beh \in {"mutate", "zero", "null"} THEN DefineProperty(config, "finalized", Bool(TRUE))
    ELSE config

\* a load that never takes what finalize resolves with
FinalizedInPlace(beh, config) == Mutated(beh, config)

\* finalConfig after const config = await options.finalize(finalConfig);
\* if (config) finalConfig = config
Finalized(beh, config) ==
    IF Truthy(Yielded(beh)) THEN Yielded(beh) ELSE Mutated(beh, config)

\* loadSources has returned to load: finalize is called, or load returns
LoadReturn ==
    \E f \in 1..Len(frames) :
    /\ frames[f].pc = "return"
    /\ Len(frames[f].stack) = 1
    /\ LET fr == frames[f]
           options == heap[fr.opts]
           finalConfig == fr.stack[1].merged
       IN Update(f,
            IF Truthy(options.finalize)
            THEN IF options.finalize.beh = "throw" THEN Fail(fr, Err("finalize"))
                 ELSE [fr EXCEPT !.pc = "finalize", !.fin = finalConfig, !.stack = <<>>,
                                 !.log = Append(fr.log, Event("finalize", <<>>,
                                                              Len(fr.sources) + 1))]
            ELSE [fr EXCEPT !.pc = "done", !.stack = <<>>,
                            !.out = addHelpers(finalConfig, options)])

\* the promise of finalize settles
FinalizeSettle ==
    \E f \in 1..Len(frames) :
    /\ frames[f].pc = "finalize"
    /\ LET fr == frames[f]
           options == heap[fr.opts]
           beh == options.finalize.beh
       IN /\ beh \in {"replace", "mutate", "zero", "null", "keep", "reject"}
          /\ Update(f,
                IF beh = "reject" THEN Fail(fr, Err("finalize"))
                ELSE [fr EXCEPT !.pc = "done",
                                !.out = addHelpers(Finalized(beh, fr.fin), options)])

-----------------------------------------------------------------------------
(* The inputs of the load pipeline *)

MaxLoads == 1

EnvOverride == Obj([k \in {"e"} |-> Num(7)])
CliOverride == Obj([k \in {"e", "c"} |-> Num(8)])
NoArgs == <<OtherArg, OtherArg>>
FlagArgs == <<OtherArg, OtherArg, OtherArg, ConfigArg(Json(CliOverride))>>

UserProtocols ==
    PMap([n \in {"up", "upA", "thr", "rej"} |->
        CASE n = "up" -> UserHandler(n, "sync")
          [] n = "upA" -> UserHandler(n, "promise")
          [] n = "thr" -> UserHandler(n, "throw")
          [] n = "rej" -> UserHandler(n, "reject")])

InlineTagged == Obj([k \in {"b", "t"} |-> IF k = "b" THEN Num(5) ELSE Str("path", <<".", "/", "z">>)])
ProvidedConfig == Obj([k \in {"a"} |-> Num(3)])

PipelinePaths == {ConfigPath, ImportingPath, ThrowingPath, RejectingPath}
PipelinePresets ==
    { NoOptions,
      Options(<<"prod">>, Undef, UserProtocols, Undef,
              Arr(<<InlineTagged, Provider("resolve", ProvidedConfig)>>), Undef, Undef, Undef),
      Options(<<>>, Obj([n \in {"env", "env-file"} |-> Bool(TRUE)]), UserProtocols,
              Arr(<<Arr(<<Provider("resolve", ProvidedConfig), Null, InlineTagged>>)>>),
              Arr(<<Provider("resolve", ProvidedConfig), Provider("reject", Undef)>>),
              Undef, Finalizer("mutate"), Bool(FALSE)),
      Options(<<"production">>, Obj([n \in {"local-file"} |-> Bool(TRUE)]), Undef,
              Arr(<<Arr(<<Provider("resolve", ProvidedConfig), Null, InlineTagged>>)>>),
              Arr(<<Provider("resolve", InlineTagged)>>),
              Undef, Finalizer("replace"), Undef) }

-----------------------------------------------------------------------------
(* Specification Spec: the load pipeline *)

NoMerge == [src |-> Undef, dest |-> Undef, out |-> Undef, pc |-> "none"]
\* no call of addHelpers is made, no object is shared
NoHelp == [config |-> Undef, enabled |-> Undef, path |-> <<>>, out |-> Undef, ret |-> Undef, pc |-> "none"]
NoStore == <<>>

Init ==
    /\ mrg = NoMerge
    /\ store = NoStore
    /\ hlp = NoHelp
    /\ frames = <<>>
    /\ heap = <<>>
    /\ envNodeConfig = Undef
    /\ commandLineNodeConfig = Undef
    /\ procEnv \in {[NODE_CONFIG |-> Undef, NODE_ENV |-> <<>>],
                    [NODE_CONFIG |-> Json(EnvOverride), NODE_ENV |-> <<"production">>]}
    /\ procArgv \in {FlagArgs}

CallLoad == Cardinality(TopFrames) < MaxLoads /\ CallLoadWith(PipelinePaths, PipelinePresets)

Next ==
    \/ CallLoad
    \/ ReadDone
    \/ InvokeHandler
    \/ InvokeImport
    \/ SettleHandler
    \/ ImportDone
    \/ ResolveFail
    \/ ResolveOk
    \/ ProviderSettle
    \/ NestedReturn
    \/ LoadReturn
    \/ FinalizeSettle

Spec == Init /\ [][Next]_vars

\* does the log show source resolution strictly in list order?  Every event
\* of source i of an activation comes after the merge (or skip) of every source
\* before i of that activation, and the events of a nested list lie between
\* the start and the merge of the source that holds it.
SettledBefore(log, p, at, j) ==
    \E q \in 1..(p - 1) : log[q].at = at /\ log[q].i = j /\ log[q].ev \in {"merge", "skip"}
StartedBefore(log, p, at, j) ==
    \E q \in 1..(p - 1) : log[q].at = at /\ log[q].i = j /\ log[q].ev = "start"
InListOrder(log) ==
    \A p \in 1..Len(log) :
        LET e == log[p]
        IN /\ \A j \in 1..(e.i - 1) : SettledBefore(log, p, e.at, j)
           /\ ~SettledBefore(log, p, e.at, e.i)
           /\ e.at # <<>> =>
                LET outer == SubSeq(e.at, 1, Len(e.at) - 1)
                    i == e.at[Len(e.at)]
                IN StartedBefore(log, p, outer, i) /\ ~SettledBefore(log, p, outer, i)

\* C4: within one loadSources call the resolution of source k+1 does not
\* start before source k has settled and been merged, so the merges happen
\* in list order whatever the order in which reads, providers, handlers and
\* imports complete.
C4_SequentialSources ==
    \A f \in 1..Len(frames) : InListOrder(frames[f].log)

\* C4 witness: a load that has returned after awaiting a provider inside a
\* nested list, then a file whose import ran as a nested load, then another
\* provider
C4_Witness ==
    \E f \in 1..Len(frames) :
        /\ frames[f].pc = "done"
        /\ \E c \in 1..Len(frames) : frames[c].parent = f /\ frames[c].pc = "done"
        /\ \E p, q, r \in 1..Len(frames[f].log) :
            /\ p < q /\ q < r
            /\ frames[f].log[p].ev = "start" /\ frames[f].log[p].at # <<>>
            /\ frames[f].log[q].ev = "start" /\ frames[f].log[q].at = <<>>
            /\ frames[f].sources[frames[f].log[q].i].t = "str"
            /\ frames[f].log[r].ev = "start" /\ frames[f].log[r].at = <<>>
            /\ frames[f].sources[frames[f].log[r].i].t = "fn"

\* C5: the config a load returns holds no string "<protocol>:<payload>"
\* whose protocol has a registered handler, whichever source contributed it.
C5_NoTaggedLeafLeft ==
    \A f \in 1..Len(frames) :
        frames[f].pc = "done"
        => Leaves(frames[f].out.val, Registered(heap[frames[f].opts].protocols), <<>>) = {}

\* a handler called for the file being resolved has thrown or rejected
HandlerFailed(f) ==
    \/ /\ frames[f].pc = "resolve"
       /\ \E l \in DOMAIN frames[f].res.st :
            frames[f].res.st[l].v \in {Err("thrown"), Err("handler")}
    \/ frames[f].out = Err("handler")

\* C6: after a protocol handler has thrown or rejected, the load does not
\* return a config and does not stay pending: it is rejected, or a step that
\* leads there is still to come.
C6_HandlerFailureRejects ==
    \A f \in 1..Len(frames) :
        HandlerFailed(f) => frames[f].pc # "done" /\ (frames[f].pc = "failed" \/ ENABLED Next)

\* C7: in a file reached through import, the built-in path handler resolves a
\* payload against the directory of that file, and the built-in import
\* handler loads the path resolved against that directory.
C7_ImportedFileRelative ==
    \A f \in 1..Len(frames) :
        (frames[f].parent # 0 /\ frames[f].pc = "resolve")
        => \A l \in DOMAIN frames[f].res.st :
            LET fr == frames[f]
                leaf == ValueAt(fr.res.tree, <<>>, l)
                handler == fr.res.h[leaf.pre]
                dir == dirname(CurrentSource(fr).pay)
            IN /\ (handler.kind = "path" /\ fr.res.st[l].s = "ok")
                    => fr.res.st[l].v = Str("", resolve(dir, leaf.pay))
               /\ (handler.kind = "import" /\ fr.res.st[l].s # "todo")
                    => \E c \in 1..Len(frames) :
                        /\ frames[c].parent = f /\ frames[c].leaf = l
                        /\ frames[c].path = resolve(dir, leaf.pay)

-----------------------------------------------------------------------------
(* Specification SpecMerge: merge applied to every pair of bounded values *)

\* no call of load is made
NoLoads ==
    /\ frames = <<>>
    /\ heap = <<>>
    /\ envNodeConfig = Undef
    /\ commandLineNodeConfig = Undef
    /\ procEnv = [NODE_CONFIG |-> Undef, NODE_ENV |-> <<>>]
    /\ procArgv = NoArgs
    /\ store = NoStore
    /\ hlp = NoHelp

InitMerge ==
    /\ mrg \in [src : MergeArgs, dest : MergeArgs, out : {Undef}, pc : {"call"}]
    /\ NoLoads

CallMerge ==
    /\ mrg.pc = "call"
    /\ mrg' = [mrg EXCEPT !.out = merge(mrg.src, mrg.dest), !.pc = "done"]
    /\ UNCHANGED <<frames, heap, envNodeConfig, commandLineNodeConfig, procEnv, procArgv, store, hlp>>

NextMerge == CallMerge

SpecMerge == InitMerge /\ [][NextMerge]_vars

\* the merge the specification describes, key by key
RECURSIVE MergeReference(_, _)
MergeReference(src, dest) ==
    IF src.t = "obj" /\ dest.t = "obj"
    THEN Obj([k \in DOMAIN src.f \cup DOMAIN dest.f |->
            IF k \in DOMAIN src.f
            THEN MergeReference(src.f[k], IF k \in DOMAIN dest.f THEN dest.f[k] ELSE Undef)
            ELSE dest.f[k]])
    ELSE src

\* C3: merge(src, dest) agrees with the reference merge on every pair of
\* bounded values: two plain objects give dest with dest[k] = merge(src[k],
\* dest[k]) for every key of src and the keys only in dest unchanged, and
\* every other pair gives src itself.
C3_MergeAgreesWithReference ==
    mrg.pc = "done" => mrg.out = MergeReference(mrg.src, mrg.dest)

\* C3 witness: a merge of two objects that recursed into a key holding an
\* object on both sides and kept a key of dest, and a merge with an array
C3_Witness ==
    /\ mrg.pc = "done"
    /\ IsObj(mrg.src) /\ IsObj(mrg.dest)
    /\ Has(mrg.src, "a") /\ Has(mrg.dest, "a")
    /\ IsObj(mrg.src.f["a"]) /\ IsObj(mrg.dest.f["a"])
    /\ Has(mrg.dest.f["a"], "b") /\ ~Has(mrg.src.f["a"], "b")
    /\ Has(mrg.src.f["a"], "a") /\ Has(mrg.dest.f["a"], "a")
    /\ mrg.src.f["a"].f["a"].t = "arr" /\ mrg.dest.f["a"].f["a"].t = "num"
    /\ mrg.out.f["a"].f["b"] = mrg.dest.f["a"].f["b"]
    /\ mrg.out.f["a"].f["a"] = mrg.src.f["a"].f["a"]
    /\ mrg.out # mrg.src /\ mrg.out # mrg.dest

-----------------------------------------------------------------------------
(* Specification SpecSources: loadSources on lists of inline objects *)

MaxSources == 2

SourceObjs ==
    { EmptyObj,
      Obj([k \in {"a"} |-> Num(1)]),
      Obj([k \in {"a", "b"} |-> IF k = "a" THEN Num(2) ELSE Arr(<<Num(1)>>)]),
      Obj([k \in {"b"} |-> Null]),
      Obj([k \in {"a"} |-> Arr(<<Num(2), Num(1)>>)]),
      Obj([k \in {"a"} |-> Obj([j \in {"a"} |-> Num(1)])]),
      Obj([k \in {"a", "b"} |-> IF k = "a" THEN Obj([j \in {"b"} |-> Num(2)]) ELSE Num(1)]) }

SourceLists == UNION {[1..n -> SourceObjs] : n \in 0..MaxSources}
MissingPath == D1 \o <<"/", "n">> \o JsonExt

\* options whose sources hook replaces the built list by the given list
ListOptions == {Options(<<>>, Undef, Undef, Undef, Undef, Hook("replace", <<>>, list), Undef, Undef) :
                    list \in SourceLists}

InitSources ==
    /\ mrg = NoMerge
    /\ store = NoStore
    /\ hlp = NoHelp
    /\ frames = <<>>
    /\ heap = <<>>
    /\ envNodeConfig = Undef
    /\ commandLineNodeConfig = Undef
    /\ procEnv = [NODE_CONFIG |-> Json(EnvOverride), NODE_ENV |-> <<>>]
    /\ procArgv = FlagArgs

CallSources == frames = <<>> /\ CallLoadWith({MissingPath}, ListOptions)

NextSources == CallSources \/ LoadReturn

SpecSources == InitSources /\ [][NextSources]_vars

\* the positions of a list whose object defines key k
Definers(list, k) == {i \in 1..Len(list) : Has(list[i], k)}
LastOf(I) == CHOOSE i \in I : \A j \in I : j <= i

\* C2: for a list of inline objects given to loadSources, a key that holds a
\* scalar or an array in every source defining it ends with the value of the
\* last source that defines it (a key of earlier sources only keeps its value).
C2_LaterWins ==
    \A f \in 1..Len(frames) :
        (frames[f].pc = "done" /\ \A i \in 1..Len(frames[f].sources) : IsObj(frames[f].sources[i]))
        => \A k \in Keys :
            LET list == frames[f].sources
                defs == Definers(list, k)
            IN (defs # {} /\ \A i \in defs : list[i].f[k].t # "obj")
               => /\ Has(frames[f].out.val, k)
                  /\ frames[f].out.val.f[k] = list[LastOf(defs)].f[k]

\* C2 witness: two sources that both define a with different scalars, the
\* first alone defines b, and the load has returned
C2_Witness ==
    \E f \in 1..Len(frames) :
        /\ frames[f].pc = "done"
        /\ Len(frames[f].sources) = 2
        /\ Definers(frames[f].sources, "a") = {1, 2}
        /\ Definers(frames[f].sources, "b") = {1}
        /\ frames[f].sources[1].f["a"] = Num(2)
        /\ frames[f].sources[2].f["a"] = Num(1)
        /\ frames[f].out.val.f["a"] = Num(1)
        /\ frames[f].out.val.f["b"] = Arr(<<Num(1)>>)

-----------------------------------------------------------------------------
(* Specification SpecBuild: one call of load, up to the list buildSources returns *)

DottedDirPath == <<"/", "d", ".", "v", "/", "c">>
RelativePath == <<"c", ".", "json">>
BuildPaths == {ConfigPath, BarePath, DottedDirPath, RelativePath, D1 \o <<"/", "c", ".", "yml">>}

ExcludeNames == {"command-line", "env", "env-file", "local-file"}
ExcludeMaps == {Obj([n \in S |-> Bool(TRUE)]) : S \in SUBSET ExcludeNames}
\* an excludes array holds the names themselves
ExcludeArrays == {Arr(<<>>), Arr(<<"command-line">>), Arr(<<"env", "env-file">>)}

BuildPresets ==
    { Options(env, ex, Undef, lists[1], lists[2], hook, Undef, Undef) :
        env \in {<<>>, <<"prod">>},
        ex \in ExcludeMaps \cup ExcludeArrays \cup {Undef},
        lists \in {<<Undef, Undef>>,
                   <<Arr(<<Str("", MissingPath)>>), Arr(<<ProvidedConfig, Null>>)>>},
        hook \in {Undef, Hook("edit", <<>>, <<>>)} }

InitBuild ==
    /\ mrg = NoMerge
    /\ store = NoStore
    /\ hlp = NoHelp
    /\ frames = <<>>
    /\ heap = <<>>
    /\ envNodeConfig = Undef
    /\ commandLineNodeConfig = Undef
    /\ procEnv \in {[NODE_CONFIG |-> Undef, NODE_ENV |-> <<>>],
                    [NODE_CONFIG |-> Json(EnvOverride), NODE_ENV |-> <<"dev">>],
                    [NODE_CONFIG |-> BadJson, NODE_ENV |-> <<"test">>]}
    /\ procArgv \in {NoArgs, FlagArgs}

CallBuild == frames = <<>> /\ CallLoadWith(BuildPaths, BuildPresets)

NextBuild == CallBuild

SpecBuild == InitBuild /\ [][NextBuild]_vars

Excluded(excludes, name) == Has(excludes, name) /\ excludes.f[name] = Bool(TRUE)
ListOf(v) == IF v.t = "arr" THEN v.e ELSE <<>>

\* the base of the specification: it keeps the whole path when there is no extension
PathNoExtKeep(path) ==
    IF extname(basename(path)) = <<>> THEN path
    ELSE slice(path, 0 - Len(extname(basename(path))))

\* the load order of the specification for a path and the options as given,
\* with base the path minus its extension and ext defaulting to .json
ExpectedBuilt(path, given, excludes) ==
    LET base == PathNoExtKeep(path)
        ext == ExtOf(path)
        environment == getEnvironment(given, procEnv)
    IN ListOf(given.defaults)
       \o <<Str("", base \o ext)>>
       \o (IF Excluded(excludes, "env-file") THEN <<>>
           ELSE <<Str("", base \o <<"-">> \o environment \o ext)>>)
       \o (IF Excluded(excludes, "local-file") THEN <<>>
           ELSE <<Str("", base \o <<"-", "local">> \o ext)>>)
       \o (IF Excluded(excludes, "env") THEN <<>> ELSE <<envNodeConfig>>)
       \o (IF Excluded(excludes, "command-line") THEN <<>> ELSE <<commandLineNodeConfig>>)
       \o ListOf(given.overrides)

\* C1: for every path and every options object with excludes in map form,
\* the list buildSources hands to the sources hook is exactly: the defaults,
\* {base}{ext}, {base}-{environment}{ext} unless env-file is excluded,
\* {base}-local{ext} unless local-file is excluded, the env override unless
\* env is excluded, the command-line override unless command-line is
\* excluded, the overrides.
C1_BuiltSequence ==
    \A f \in 1..Len(frames) :
        (IsObj(frames[f].given.excludes) /\ frames[f].built # <<>>)
        => frames[f].built = ExpectedBuilt(frames[f].path, frames[f].given, frames[f].given.excludes)

\* C8: for a path whose basename has no extension the file sources are
\* {path}.json, {path}-{environment}.json and {path}-local.json.
C8_BarePathKeepsBase ==
    \A f \in 1..Len(frames) :
        LET fr == frames[f]
            d == Len(ListOf(fr.given.defaults))
        IN (extname(basename(fr.path)) = <<>> /\ fr.given.excludes = Undef /\ fr.built # <<>>)
           => SubSeq(fr.built, d + 1, d + 3) =
                << Str("", fr.path \o JsonExt),
                   Str("", fr.path \o <<"-">> \o getEnvironment(fr.given, procEnv) \o JsonExt),
                   Str("", fr.path \o <<"-", "local">> \o JsonExt) >>

\* the map equivalent to an excludes given as an array of names
NormaliseExcludesToMap(excludes) ==
    IF Truthy(excludes)
    THEN IF excludes.t = "arr"
         THEN Obj([n \in {excludes.e[i] : i \in 1..Len(excludes.e)} |-> Bool(TRUE)])
         ELSE excludes
    ELSE EmptyObj

\* C9: a load whose excludes is an array of names behaves like the load with
\* the equivalent map: it fails only if that one does and it builds the same
\* list, from which exactly the named sources are missing.
C9_ArrayLikeMap ==
    \A f \in 1..Len(frames) :
        LET fr == frames[f]
        IN fr.given.excludes.t = "arr"
           => LET asMap == NormaliseExcludesToMap(fr.given.excludes)
                  m == LoadCall(fr.path, <<[fr.given EXCEPT !.excludes = asMap]>>, 1, 0, <<>>,
                                Memo, procEnv, procArgv).frame
              IN /\ (fr.pc = "failed") = (m.pc = "failed")
                 /\ fr.built = m.built
                 /\ fr.built # <<>> => fr.built = ExpectedBuilt(fr.path, fr.given, asMap)

\* C10: after a call of load the options object the caller passed has the
\* properties and values it had before the call.
C10_OptionsUntouched ==
    \A f \in TopFrames : heap[frames[f].opts] = frames[f].given

-----------------------------------------------------------------------------
(* Specification SpecShared: merge on objects held by reference.  A source  *)
(* object that merge copies into mergedConfig under a key mergedConfig does *)
(* not have yet is the same object afterwards, so a later merge into that   *)
(* key writes to the source.                                                *)

Ref(id) == [t |-> "ref", id |-> id]

\* JSON.parse, or an object literal of the caller: new objects for a value
RECURSIVE Alloc(_, _)
RECURSIVE AllocProps(_, _, _, _)
AllocProps(st, props, v, acc) ==
    IF props = <<>> THEN [store |-> st, f |-> acc]
    ELSE LET r == Alloc(st, v.f[Head(props)])
         IN AllocProps(r.store, Tail(props), v, (Head(props) :> r.val) @@ acc)
Alloc(st, v) ==
    IF IsObj(v)
    THEN LET r == AllocProps(st, SetToSeq(DOMAIN v.f), v, <<>>)
         IN [store |-> Append(r.store, r.f), val |-> Ref(Len(r.store) + 1)]
    ELSE [store |-> st, val |-> v]

\* the value a reference stands for
RECURSIVE Deref(_, _)
Deref(st, v) ==
    IF v.t = "ref" THEN Obj([k \in DOMAIN st[v.id] |-> Deref(st, st[v.id][k])]) ELSE v

\* merge(src, dest) on references: [store, val].  dest is written in place;
\* a property dest lacks receives src's own value, an object included
RECURSIVE mergeByRef(_, _, _)
RECURSIVE MergePropsByRef(_, _, _, _)
MergePropsByRef(st, props, src, dest) ==
    IF props = <<>> THEN [store |-> st, val |-> dest]
    ELSE LET prop == Head(props)
             old == IF prop \in DOMAIN st[dest.id] THEN st[dest.id][prop] ELSE Undef
             r == mergeByRef(st, st[src.id][prop], old)
         IN MergePropsByRef([r.store EXCEPT ![dest.id] = (prop :> r.val) @@ @],
                            Tail(props), src, dest)
mergeByRef(st, src, dest) ==
    IF src.t = "ref" /\ dest.t = "ref"
    THEN MergePropsByRef(st, SetToSeq(DOMAIN st[src.id]), src, dest)
    ELSE [store |-> st, val |-> src]

MaxShared == 2

NestedEnvOverride == Obj([k \in {"e"} |-> Obj([j \in {"k"} |-> Num(1)])])
NestedCliOverride == Obj([k \in {"e", "c"} |-> IF k = "e" THEN Obj([j \in {"k"} |-> Num(2)]) ELSE Num(8)])
SharedOverrides == {<<>>, <<Obj([k \in {"e"} |-> Obj([j \in {"n"} |-> Num(3)])])>>,
                    <<Obj([k \in {"c"} |-> Obj([j \in {"k"} |-> Num(4)])])>>}
SharedFinalizers == {Undef, Finalizer("mutate"), Finalizer("nested")}

InitShared ==
    /\ mrg = NoMerge
    /\ hlp = NoHelp
    /\ store = NoStore
    /\ frames = <<>>
    /\ heap = <<>>
    /\ envNodeConfig = Undef
    /\ commandLineNodeConfig = Undef
    /\ procEnv \in {[NODE_CONFIG |-> Json(j), NODE_ENV |-> <<>>] : j \in {EnvOverride, NestedEnvOverride}}
    /\ procArgv \in {FlagArgs, <<OtherArg, OtherArg, ConfigArg(Json(NestedCliOverride))>>}

\* load of a path with no file, up to the loop of loadSources: the two
\* accessors parse on their first call and return the memoised object, the
\* overrides are the caller's objects, mergedConfig is a new {}
CallShared ==
    /\ Len(frames) < MaxShared
    /\ \E overrides \in SharedOverrides, finalize \in SharedFinalizers :
        LET e == getEnvNodeConfig(IF envNodeConfig = Undef THEN Undef ELSE Deref(store, envNodeConfig), procEnv)
            s1 == IF envNodeConfig = Undef THEN Alloc(store, e.ret)
                  ELSE [store |-> store, val |-> envNodeConfig]
            c == getCommandLineNodeConfig(IF commandLineNodeConfig = Undef THEN Undef
                                          ELSE Deref(s1.store, commandLineNodeConfig), procArgv)
            s2 == IF commandLineNodeConfig = Undef THEN Alloc(s1.store, c.ret)
                  ELSE [store |-> s1.store, val |-> commandLineNodeConfig]
            o == IF overrides = <<>> THEN [store |-> s2.store, val |-> Undef]
                 ELSE Alloc(s2.store, overrides[1])
            m == Alloc(o.store, EmptyObj)
        IN /\ envNodeConfig' = s1.val
           /\ commandLineNodeConfig' = s2.val
           /\ store' = m.store
           /\ frames' = Append(frames, [sources |-> <<s1.val, s2.val, o.val>>, idx |-> 1,
                                        merged |-> m.val, finalize |-> finalize, pc |-> "run"])
           /\ UNCHANGED <<mrg, hlp, heap, procEnv, procArgv>>

\* one turn of the loop of loadSources: handleSourceLoad(source)
MergeShared ==
    \E f \in 1..Len(frames) :
        /\ frames[f].pc = "run"
        /\ frames[f].idx <= Len(frames[f].sources)
        /\ LET fr == frames[f]
               source == fr.sources[fr.idx]
               r == IF source.t = "ref" THEN mergeByRef(store, source, fr.merged)
                    ELSE [store |-> store, val |-> fr.merged]
           IN /\ store' = r.store
              /\ frames' = [frames EXCEPT ![f].idx = fr.idx + 1]
              /\ UNCHANGED <<mrg, hlp, heap, envNodeConfig, commandLineNodeConfig, procEnv, procArgv>>

\* finalize(finalConfig): a hook that sets finalConfig.finalized, or one that
\* sets finalConfig.e.k when finalConfig.e is an object; then load returns
FinalizeShared ==
    \E f \in 1..Len(frames) :
        /\ frames[f].pc = "run"
        /\ frames[f].idx > Len(frames[f].sources)
        /\ LET fr == frames[f]
               config == store[fr.merged.id]
               beh == IF Truthy(fr.finalize) THEN fr.finalize.beh ELSE "none"
           IN /\ store' =
                    CASE beh = "mutate" ->
                            [store EXCEPT ![fr.merged.id] = ("finalized" :> Bool(TRUE)) @@ @]
                      [] beh = "nested" /\ "e" \in DOMAIN config /\ config["e"].t = "ref" ->
                            [store EXCEPT ![config["e"].id] = ("k" :> Num(9)) @@ @]
                      [] OTHER -> store
              /\ frames' = [frames EXCEPT ![f].pc = "done"]
              /\ UNCHANGED <<mrg, hlp, heap, envNodeConfig, commandLineNodeConfig, procEnv, procArgv>>

NextShared == CallShared \/ MergeShared \/ FinalizeShared

SpecShared == InitShared /\ [][NextShared]_vars

\* C11: whatever loads have run, with whatever overrides and finalize hooks,
\* each memoised override is still equal to what was parsed from the process
\* input (NODE_CONFIG, --NODE_CONFIG).
C11_OverridesReadOnly ==
    /\ envNodeConfig # Undef
        => Deref(store, envNodeConfig) = parseJSON(procEnv.NODE_CONFIG, "parse NODE_CONFIG")
    /\ commandLineNodeConfig # Undef
        => Deref(store, commandLineNodeConfig) = ScanArgv(SubSeq(procArgv, 3, Len(procArgv)))

-----------------------------------------------------------------------------
(* Specification SpecMemo: successive loads while process.env.NODE_CONFIG *)
(* and process.argv change                                                 *)

MaxCalls == 3

MemoEnvs == {Undef, Json(EnvOverride), BadJson}
MemoArgvs == {NoArgs, FlagArgs, <<OtherArg, OtherArg, ConfigArg(BadJson)>>}
MemoPresets == {NoOptions,
                Options(<<>>, Obj([n \in {"env"} |-> Bool(TRUE)]), Undef, Undef, Undef, Undef, Undef, Undef)}

InitMemo ==
    /\ mrg = NoMerge
    /\ store = NoStore
    /\ hlp = NoHelp
    /\ frames = <<>>
    /\ heap = <<>>
    /\ envNodeConfig = Undef
    /\ commandLineNodeConfig = Undef
    /\ procEnv \in {[NODE_CONFIG |-> j, NODE_ENV |-> <<>>] : j \in MemoEnvs}
    /\ procArgv \in MemoArgvs

CallMemo == Len(frames) < MaxCalls /\ CallLoadWith({MissingPath}, MemoPresets)

\* the program assigns process.env.NODE_CONFIG
SetEnv ==
    /\ \E j \in MemoEnvs : j # procEnv.NODE_CONFIG /\ procEnv' = [procEnv EXCEPT !.NODE_CONFIG = j]
    /\ UNCHANGED <<mrg, store, hlp, frames, heap, envNodeConfig, commandLineNodeConfig, procArgv>>

\* the program replaces the arguments in process.argv
SetArgv ==
    /\ \E a \in MemoArgvs : a # procArgv /\ procArgv' = a
    /\ UNCHANGED <<mrg, store, hlp, frames, heap, envNodeConfig, commandLineNodeConfig, procEnv>>

NextMemo == CallMemo \/ SetEnv \/ SetArgv

SpecMemo == InitMemo /\ [][NextMemo]_vars

\* the loads in which an accessor ran parseJSON, and those that called it
ParsedIn(which) == {f \in 1..Len(frames) : frames[f].acc[which].called /\ frames[f].acc[which].parsed}
CalledIn(which) == {f \in 1..Len(frames) : frames[f].acc[which].called}

\* C12: over any sequence of loads each override is parsed at most once, a
\* failed parse and an absent override included, and every call of an
\* accessor returns what its first call returned, whatever has since become
\* of NODE_CONFIG and of the arguments.
C12_ParsedOnce ==
    \A which \in {"env", "cli"} :
        /\ Cardinality(ParsedIn(which)) <= 1
        /\ \A f, g \in CalledIn(which) : frames[f].acc[which].ret = frames[g].acc[which].ret

-----------------------------------------------------------------------------
(* Claims on imports, checked under Spec *)

-----------------------------------------------------------------------------
(* Specification SpecProtocols: handleProtocols on one file with tagged     *)
(* strings inside nested objects and arrays                                 *)

\* the caller's protocols: a handler that returns null is among them, or a
\* protocol is given no handler, or a built-in one is replaced
ProtocolPresets ==
    { Options(<<>>, Obj([n \in ExcludeNames |-> Bool(TRUE)]), pm, Undef, Undef, Undef, Undef, Undef) :
        pm \in { Undef,
                 UserProtocols,
                 PMap([n \in {"up", "upA", "nul"} |->
                        CASE n = "up" -> UserHandler(n, "sync")
                          [] n = "upA" -> UserHandler(n, "promise")
                          [] n = "nul" -> UserHandler(n, "null")]),
                 PMap([n \in {"up", "upA", "path"} |->
                        CASE n = "up" -> UserHandler(n, "promise")
                          [] n = "upA" -> Null
                          [] n = "path" -> UserHandler(n, "sync")]) } }

InitProtocols ==
    /\ mrg = NoMerge
    /\ store = NoStore
    /\ hlp = NoHelp
    /\ frames = <<>>
    /\ heap = <<>>
    /\ envNodeConfig = Undef
    /\ commandLineNodeConfig = Undef
    /\ procEnv = [NODE_CONFIG |-> Undef, NODE_ENV |-> <<>>]
    /\ procArgv = NoArgs

CallProtocols == frames = <<>> /\ CallLoadWith({DeepPath}, ProtocolPresets)

NextProtocols ==
    \/ CallProtocols
    \/ ReadDone
    \/ InvokeHandler
    \/ SettleHandler
    \/ ResolveOk
    \/ LoadReturn

SpecProtocols == InitProtocols /\ [][NextProtocols]_vars

\* what a handler gives for a payload: the value it returns, or the value
\* the promise it returns resolves with
ResultOf(handler, pay) ==
    CASE handler.kind = "path" -> Str("", resolve(handler.dir, pay))
      [] handler.kind = "user" /\ handler.beh = "null" -> Null
      [] handler.kind = "user" -> Res(handler.name, pay)
      [] OTHER -> Res(handler.kind, pay)

\* the tree in which every string tagged with a protocol of h is replaced by
\* the result of its handler and everything else is kept
RECURSIVE ResolvedTree(_, _)
ResolvedTree(v, h) ==
    CASE v.t = "str" -> IF v.pre \in DOMAIN h THEN ResultOf(h[v.pre], v.pay) ELSE v
      [] v.t = "obj" -> Obj([k \in DOMAIN v.f |-> ResolvedTree(v.f[k], h)])
      [] v.t = "arr" -> Arr([i \in 1..Len(v.e) |-> ResolvedTree(v.e[i], h)])
      [] OTHER -> v

\* the handlers of an options object that are functions
HandlersOf(options) ==
    [n \in {m \in DOMAIN options.protocols.h : options.protocols.h[m].t = "fn"} |->
        options.protocols.h[n]]

\* C14: for the tree of a file and the registered handlers, every tagged
\* string whose handler has returned (or whose promise has resolved) is
\* replaced by that result at any depth, no handler that returned a value
\* leaves its string unresolved, and the tree contributed once all have
\* settled is the tree with exactly those strings replaced.
C14_TaggedLeavesReplaced ==
    \A f \in 1..Len(frames) :
        frames[f].pc = "resolve"
        => LET fr == frames[f]
               h == HandlersOf(heap[fr.opts])
           IN /\ \A l \in DOMAIN fr.res.st :
                    LET leaf == ValueAt(fr.res.tree, <<>>, l)
                    IN /\ fr.res.st[l].s = "ok" => fr.res.st[l].v = ResultOf(h[leaf.pre], leaf.pay)
                       /\ fr.res.st[l].s = "lost" => h[leaf.pre].beh = "throw"
              /\ (\A l \in DOMAIN fr.res.st : fr.res.st[l].s = "ok")
                    => Substitute(fr.res.tree, fr.res.st, <<>>) = ResolvedTree(fr.res.tree, h)

-----------------------------------------------------------------------------
(* Specification SpecFailures: loads whose source list holds a source that  *)
(* fails                                                                    *)

FailingSources ==
    { Str("", MalformedPath), Str("", UnreadablePath), Provider("reject", Undef),
      Provider("throw", Undef), Num(5),
      Arr(<<Provider("resolve", ProvidedConfig), Str("", MalformedPath), ProvidedConfig>>) }
SoundSources ==
    { ProvidedConfig, Str("", MissingPath), Provider("resolve", InlineTagged),
      Arr(<<Provider("resolve", ProvidedConfig)>>) }

\* options whose sources hook gives a list with a failing source in second place
FailureOptions ==
    { Options(<<>>, Undef, Undef, Undef, Undef, Hook("replace", <<>>, <<a, b, c>>),
              Finalizer(beh), Undef) :
        a \in SoundSources, b \in FailingSources \cup {ProvidedConfig}, c \in SoundSources,
        beh \in {"mutate", "replace", "zero", "null"} }

InitFailures ==
    /\ mrg = NoMerge
    /\ store = NoStore
    /\ hlp = NoHelp
    /\ frames = <<>>
    /\ heap = <<>>
    /\ envNodeConfig = Undef
    /\ commandLineNodeConfig = Undef
    /\ procEnv \in {[NODE_CONFIG |-> j, NODE_ENV |-> <<>>] : j \in {Undef, BadJson}}
    /\ procArgv = NoArgs

CallFailures == frames = <<>> /\ CallLoadWith({MissingPath}, FailureOptions \cup {NoOptions})

NextFailures ==
    \/ CallFailures
    \/ ReadDone
    \/ ProviderSettle
    \/ NestedReturn
    \/ LoadReturn
    \/ FinalizeSettle

SpecFailures == InitFailures /\ [][NextFailures]_vars

\* C15: once the resolution of a source has failed (a read error other than
\* ENOENT, malformed JSON, a rejected or throwing provider, an entry of no
\* valid kind), nothing more happens in that load: no source is started or
\* merged after it, finalize is not called, and the load is rejected with
\* the error and has no config.
C15_FailureAborts ==
    \A f \in 1..Len(frames) :
        \A p \in 1..Len(frames[f].log) :
            frames[f].log[p].ev = "fail"
            => /\ p = Len(frames[f].log)
               /\ frames[f].pc = "failed" /\ IsErr(frames[f].out)
               /\ frames[f].fin = Undef /\ frames[f].stack = <<>>
               /\ \A q \in 1..Len(frames[f].log) : frames[f].log[q].ev # "finalize"

\* C15 witness: the second source of three, a nested list whose second
\* source is a malformed file, failed after the first source and the
\* provider before the file were merged
C15_Witness ==
    \E f \in 1..Len(frames) :
        LET log == frames[f].log
        IN /\ frames[f].pc = "failed"
           /\ frames[f].out = Err("parse file")
           /\ Len(frames[f].sources) = 3
           /\ log[Len(log)] = Event("fail", <<2>>, 2)
           /\ \E p, q \in 1..Len(log) :
                /\ log[p] = Event("merge", <<>>, 1)
                /\ log[q] = Event("merge", <<2>>, 1)

\* the completion of a load: none yet, a config, or an error
Outcome(f) ==
    CASE frames[f].pc = "done" -> frames[f].out.t = "config"
      [] frames[f].pc = "failed" -> IsErr(frames[f].out)
      [] OTHER -> /\ frames[f].pc \in {"read", "resolve", "provider", "return", "finalize"}
                  /\ frames[f].out = Undef

IsMissing(source) == source.t = "str" /\ ReadFile(source.pay).err = "ENOENT"

\* a list without its paths of missing files, nested lists included
RECURSIVE WithoutMissing(_)
WithoutMissing(list) ==
    IF list = <<>> THEN <<>>
    ELSE LET source == Head(list)
         IN IF IsMissing(source) THEN WithoutMissing(Tail(list))
            ELSE IF source.t = "arr"
                 THEN <<Arr(WithoutMissing(source.e))>> \o WithoutMissing(Tail(list))
                 ELSE <<source>> \o WithoutMissing(Tail(list))

\* a list of sources none of which fails: objects, null, resolving
\* providers, paths of missing files, lists of these
RECURSIVE Sound(_)
Sound(list) ==
    \A i \in 1..Len(list) :
        \/ list[i].t \in {"obj", "null", "undef"}
        \/ list[i].t = "fn" /\ list[i].beh = "resolve"
        \/ IsMissing(list[i])
        \/ list[i].t = "arr" /\ Sound(list[i].e)

\* the config such a list merges to, source after source
RECURSIVE MergedOf(_, _)
MergedOf(list, acc) ==
    IF list = <<>> THEN acc
    ELSE LET source == Head(list)
             sourceConfig == CASE source.t = "obj" -> source
                               [] source.t = "fn" -> source.v
                               [] source.t = "arr" -> MergedOf(source.e, EmptyObj)
                               [] OTHER -> Undef
         IN MergedOf(Tail(list), handleSourceLoad(sourceConfig, acc))

\* C17: a file source whose read fails with ENOENT contributes nothing and
\* does not fail the load: a load whose other sources do not fail completes
\* with the config that the list without the missing paths merges to (the
\* empty config when every source is a missing file).
C17_MissingFilesSkipped ==
    \A f \in 1..Len(frames) :
        (frames[f].built # <<>> /\ Sound(frames[f].sources) /\ Settled(f))
        => /\ frames[f].pc = "done"
           /\ LET merged == MergedOf(WithoutMissing(frames[f].sources), EmptyObj)
                  finalize == heap[frames[f].opts].finalize
              IN frames[f].out.val =
                    IF Truthy(finalize) THEN Finalized(finalize.beh, merged) ELSE merged

\* C17 witness: a load whose first and last sources are paths of missing
\* files has returned what the source between them holds
C17_Witness ==
    \E f \in 1..Len(frames) :
        /\ frames[f].pc = "done"
        /\ Len(frames[f].sources) = 3
        /\ IsMissing(frames[f].sources[1]) /\ IsMissing(frames[f].sources[3])
        /\ frames[f].sources[2] = ProvidedConfig
        /\ frames[f].out.val = DefineProperty(ProvidedConfig, "finalized", Bool(TRUE))

-----------------------------------------------------------------------------
(* Specification SpecHelpers: addHelpers on a config, then get on a path *)

HelperConfigs ==
    { EmptyObj,
      Obj([k \in {"a"} |-> Obj([j \in {"b"} |-> Obj([i \in {"c"} |-> Num(5)])])]),
      Obj([k \in {"a"} |-> Obj([j \in {"b"} |-> EmptyObj])]),
      Obj([k \in {"a"} |-> Obj([j \in {"b"} |-> Num(0)])]),
      Obj([k \in {"a"} |-> Num(0)]),
      Obj([k \in {"a"} |-> Bool(FALSE)]),
      Obj([k \in {"a"} |-> Str("", <<>>)]),
      Obj([k \in {"a"} |-> Null]),
      Obj([k \in {"a"} |-> Num(5)]),
      Obj([k \in {"a"} |-> Arr(<<Num(1)>>)]),
      Obj([k \in {"a", "get"} |-> IF k = "a" THEN Num(1) ELSE Str("", <<"data">>)]) }
HelperPaths == {<<"a">>, <<"a", "b">>, <<"a", "b", "c">>, <<"x">>, <<"x", "b">>, <<"get">>}

InitHelpers ==
    /\ mrg = NoMerge
    /\ store = NoStore
    /\ frames = <<>>
    /\ heap = <<>>
    /\ envNodeConfig = Undef
    /\ commandLineNodeConfig = Undef
    /\ procEnv = [NODE_CONFIG |-> Undef, NODE_ENV |-> <<>>]
    /\ procArgv = NoArgs
    /\ hlp \in [config : HelperConfigs, enabled : {Undef, Bool(TRUE), Bool(FALSE)},
                path : HelperPaths, out : {Undef}, ret : {Undef}, pc : {"call"}]

\* load returns addHelpers(finalConfig, options)
CallAddHelpers ==
    /\ hlp.pc = "call"
    /\ hlp' = [hlp EXCEPT !.pc = "helped",
                          !.out = addHelpers(hlp.config, [helpersEnabled |-> hlp.enabled])]
    /\ UNCHANGED <<mrg, store, frames, heap, envNodeConfig, commandLineNodeConfig, procEnv, procArgv>>

\* the caller calls config.get(path)
CallGet ==
    /\ hlp.pc = "helped" /\ hlp.out.get
    /\ hlp' = [hlp EXCEPT !.pc = "got", !.ret = get(hlp.out, hlp.path)]
    /\ UNCHANGED <<mrg, store, frames, heap, envNodeConfig, commandLineNodeConfig, procEnv, procArgv>>

NextHelpers == CallAddHelpers \/ CallGet

SpecHelpers == InitHelpers /\ [][NextHelpers]_vars

\* the value stored at a path of keys: undefined as soon as a key is missing
RECURSIVE ValueAtPath(_, _)
ValueAtPath(v, parts) ==
    IF parts = <<>> THEN v
    ELSE IF IsObj(v) /\ Has(v, Head(parts)) THEN ValueAtPath(v.f[Head(parts)], Tail(parts))
    ELSE Undef

\* C19: get(path) returns the value stored at the path when every key along
\* it exists and undefined when a key is missing, whatever the existing keys
\* before the missing one hold (0, false, the empty string and null
\* included).
C19_GetReturnsValueAtPath ==
    hlp.pc = "got" => hlp.ret = ValueAtPath(hlp.config, hlp.path)

\* C20: addHelpers leaves every data key and value of the config as it was,
\* a key named get included; it adds the get function unless helpersEnabled
\* is false, and then it changes nothing and adds no accessor.
C20_HelpersKeepData ==
    hlp.pc \in {"helped", "got"}
    => /\ hlp.out.val = hlp.config
       /\ hlp.out.get = (hlp.enabled # Bool(FALSE))

-----------------------------------------------------------------------------
(* Specification SpecReuse: loads of different paths, successive or         *)
(* interleaved, some of them given an options object a load was given before *)

MaxReuse == 3

ReusePaths == {ConfigPath, ImportedPath}
ReusePresets ==
    { Options(<<>>, ex, Undef, Undef, Undef, Undef, Undef, Undef) :
        ex \in {Undef, Obj([n \in {"command-line", "env", "env-file", "local-file"} |-> Bool(TRUE)])} }

InitReuse ==
    /\ mrg = NoMerge
    /\ store = NoStore
    /\ hlp = NoHelp
    /\ frames = <<>>
    /\ heap = <<>>
    /\ envNodeConfig = Undef
    /\ commandLineNodeConfig = Undef
    /\ procEnv = [NODE_CONFIG |-> Undef, NODE_ENV |-> <<>>]
    /\ procArgv = NoArgs

\* a caller calls load with an options object of its own
CallFresh == Len(frames) < MaxReuse /\ CallLoadWith(ReusePaths, ReusePresets)

\* a caller calls load with an options object it gave to a load before
CallReuse ==
    /\ Len(frames) < MaxReuse
    /\ \E path \in ReusePaths, o \in 1..Len(heap) :
        LET c == LoadCall(path, heap, o, 0, <<>>, Memo, procEnv, procArgv)
        IN /\ frames' = Append(frames, c.frame)
           /\ heap' = c.heap
           /\ envNodeConfig' = c.memo.env
           /\ commandLineNodeConfig' = c.memo.cli
           /\ UNCHANGED <<mrg, procEnv, procArgv, store, hlp>>

NextReuse ==
    \/ CallFresh
    \/ CallReuse
    \/ ReadDone
    \/ InvokeHandler
    \/ ResolveOk
    \/ LoadReturn

SpecReuse == InitReuse /\ [][NextReuse]_vars

\* the options of a load as its caller wrote them: what the object held when
\* it was first given to a load
FirstGiven(o) == CHOOSE f \in 1..Len(frames) :
                    frames[f].opts = o /\ \A g \in 1..(f - 1) : frames[g].opts # o
Written(f) == frames[FirstGiven(frames[f].opts)].given

\* C21: the result of load(p, o) does not depend on the other loads: two
\* loads of the same path whose options were written alike return the same
\* config, whether the options object was given to another load before or
\* during the load or not.
C21_LoadsIndependent ==
    \A f, g \in 1..Len(frames) :
        (/\ frames[f].pc = "done" /\ frames[g].pc = "done"
         /\ frames[f].path = frames[g].path
         /\ Written(f) = Written(g))
        => frames[f].out = frames[g].out

-----------------------------------------------------------------------------
(* Specification SpecHook: loads whose options.sources is a function *)

FrontSource == Obj([k \in {"unshift", "baz"} |-> IF k = "baz" THEN Num(1) ELSE Bool(TRUE)])
BackSource == Obj([k \in {"push", "baz"} |-> IF k = "baz" THEN Num(2) ELSE Bool(TRUE)])
DefaultsSource == Obj([k \in {"defaults", "baz"} |-> IF k = "baz" THEN Num(0) ELSE Bool(TRUE)])

HookBehaviours == {"edit", "null", "same", "replace", "both", "zero", "empty"}
HookPresets ==
    { Options(<<>>, Obj([n \in {"command-line", "env", "env-file", "local-file"} |-> Bool(TRUE)]),
              Undef, defaults, overrides, Hook(beh, front, back), Undef, Undef) :
        defaults \in {Undef, Arr(<<DefaultsSource>>)},
        overrides \in {Undef, Arr(<<ProvidedConfig>>)},
        beh \in HookBehaviours,
        front \in {<<>>, <<FrontSource>>},
        back \in {<<>>, <<BackSource>>, <<Str("", MissingPath), BackSource>>} }

InitHook ==
    /\ mrg = NoMerge
    /\ store = NoStore
    /\ hlp = NoHelp
    /\ frames = <<>>
    /\ heap = <<>>
    /\ envNodeConfig = Undef
    /\ commandLineNodeConfig = Undef
    /\ procEnv = [NODE_CONFIG |-> Undef, NODE_ENV |-> <<>>]
    /\ procArgv = NoArgs

CallHook == frames = <<>> /\ CallLoadWith({MissingPath}, HookPresets)

NextHook == CallHook \/ ReadDone \/ LoadReturn

SpecHook == InitHook /\ [][NextHook]_vars

\* C22: options.sources, a function, is called once with the built list.
\* When it returns a value other than null and undefined the load uses
\* exactly that value as its source list, without the built list; when it
\* returns null or undefined the load uses the built list as the hook left
\* it, insertions at the front and at the end included.  A load that
\* completes returns what that list merges to.
C22_HookReplacesOrEdits ==
    \A f \in 1..Len(frames) :
        LET fr == frames[f]
            hook == fr.given.sources
        IN (hook.t = "fn" /\ fr.built # <<>>)
           => LET returned == HookReturn(hook, fr.built)
                  expected == IF returned.t \in {"null", "undef"}
                              THEN Arr(HookEdits(hook, fr.built))
                              ELSE returned
              IN /\ fr.used = expected
                 /\ IF Iterable(expected) THEN fr.sources = Iterate(expected)
                    ELSE fr.pc = "failed"
                 /\ fr.pc = "done"
                    => fr.out.val = MergedOf(WithoutMissing(fr.sources), EmptyObj)

\* C22 witness: a hook that put a source at the front of the built list and
\* returned a list of its own; the load has returned what that list alone
\* merges to, without the defaults and the overrides of the built list
C22_Witness ==
    \E f \in 1..Len(frames) :
        LET fr == frames[f]
        IN /\ fr.pc = "done"
           /\ fr.given.sources.beh = "both"
           /\ fr.given.sources.front = <<FrontSource>>
           /\ Len(fr.built) = 3
           /\ fr.used = Arr(<<Str("", MissingPath), BackSource>>)
           /\ fr.out.val = BackSource

-----------------------------------------------------------------------------
(* Specification SpecEnvironment: successive loads while NODE_ENV changes *)

MaxEnvLoads == 2

EnvNames == {<<>>, <<"prod">>, <<"dev">>, <<"production">>, <<"development">>, <<"staging">>}

EnvironmentPresets ==
    { Options(environment, Obj([n \in {"command-line", "env"} |-> Bool(TRUE)]),
              Undef, Undef, Undef, Undef, Undef, Undef) : environment \in EnvNames }

InitEnvironment ==
    /\ mrg = NoMerge
    /\ store = NoStore
    /\ hlp = NoHelp
    /\ frames = <<>>
    /\ heap = <<>>
    /\ envNodeConfig = Undef
    /\ commandLineNodeConfig = Undef
    /\ procEnv \in {[NODE_CONFIG |-> Undef, NODE_ENV |-> e] : e \in EnvNames}
    /\ procArgv = NoArgs

CallEnvironment ==
    Len(frames) < MaxEnvLoads /\ CallLoadWith({ConfigPath}, EnvironmentPresets)

\* the process sets process.env.NODE_ENV between two loads
SetNodeEnv ==
    /\ Len(frames) < MaxEnvLoads
    /\ \E e \in EnvNames : e # procEnv.NODE_ENV /\ procEnv' = [procEnv EXCEPT !.NODE_ENV = e]
    /\ UNCHANGED <<mrg, store, hlp, frames, heap, envNodeConfig, commandLineNodeConfig, procArgv>>

NextEnvironment == CallEnvironment \/ SetNodeEnv

SpecEnvironment == InitEnvironment /\ [][NextEnvironment]_vars

\* the environment name of the specification for an option and a reading of
\* the external variable (<<>> is an absent or empty value)
EnvironmentName(option, external) ==
    LET name == IF option # <<>> THEN option ELSE external
    IN CASE name = <<"prod">> -> <<"production">>
         [] name = <<"dev">> -> <<"development">>
         [] name = <<>> -> <<"development">>
         [] OTHER -> name

-----------------------------------------------------------------------------
(* Claims on the finalize hook, checked under Spec *)

\* the positions of the log of a load at which finalize was called
FinalizeCalls(f) == {p \in 1..Len(frames[f].log) : frames[f].log[p].ev = "finalize"}

\* the loads made, directly or through further imports, for the imports of f
RECURSIVE ImportedBy(_, _)
ImportedBy(f, depth) ==
    IF depth = 0 THEN {}
    ELSE LET direct == {c \in 1..Len(frames) : frames[c].parent = f}
         IN direct \cup UNION {ImportedBy(c, depth - 1) : c \in direct}

\* C24: finalize is called at most once in a load, never in the load of an
\* imported file, and at the time it is called every source of the load has
\* been merged (or skipped), no file is being resolved any more and every
\* load made for an import has completed.
C24_FinalizeLastOnce ==
    \A f \in 1..Len(frames) :
        /\ Cardinality(FinalizeCalls(f)) <= 1
        /\ frames[f].parent # 0 => FinalizeCalls(f) = {} /\ frames[f].fin = Undef
        /\ \A p \in FinalizeCalls(f) :
            /\ \A i \in 1..Len(frames[f].sources) : SettledBefore(frames[f].log, p, <<>>, i)
            /\ \A q \in 1..Len(frames[f].log) : frames[f].log[q].ev \in {"start", "merge", "skip"} => q < p
            /\ frames[f].res = NoRes
            /\ \A c \in ImportedBy(f, Len(frames)) : Settled(c)

\* C24 witness: finalize has been called in a load that imported a file, after
\* the imported file was loaded without it
C24_Witness ==
    \E f, c \in 1..Len(frames) :
        /\ frames[f].parent = 0 /\ frames[f].pc = "finalize"
        /\ FinalizeCalls(f) # {}
        /\ frames[c].parent = f /\ frames[c].pc = "done"
        /\ FinalizeCalls(c) = {}

-----------------------------------------------------------------------------
(* Specification SpecHandlerErrors: files whose protocol handlers fail with *)
(* an error that carries the code ENOENT                                    *)

HandlerErrorPresets ==
    { Options(<<>>, ex, PMap([n \in {"eno"} |-> UserHandler(n, beh)]),
              Undef, Undef, Undef, Undef, Undef) :
        ex \in { Obj([n \in {"command-line", "env", "env-file", "local-file"} |-> Bool(TRUE)]),
                 Obj([n \in {"command-line", "env"} |-> Bool(TRUE)]) },
        beh \in {"sync", "promise", "reject", "reject-enoent", "throw-enoent"} }

InitHandlerErrors ==
    /\ mrg = NoMerge
    /\ store = NoStore
    /\ hlp = NoHelp
    /\ frames = <<>>
    /\ heap = <<>>
    /\ envNodeConfig = Undef
    /\ commandLineNodeConfig = Undef
    /\ procEnv = [NODE_CONFIG |-> Undef, NODE_ENV |-> <<>>]
    /\ procArgv = NoArgs

CallHandlerErrors ==
    frames = <<>> /\ CallLoadWith({FileTagPath, UserTagPath}, HandlerErrorPresets)

NextHandlerErrors ==
    \/ CallHandlerErrors
    \/ ReadDone
    \/ InvokeHandler
    \/ SettleHandler
    \/ ResolveFail
    \/ ResolveOk
    \/ LoadReturn

SpecHandlerErrors == InitHandlerErrors /\ [][NextHandlerErrors]_vars

\* a handler called for the file being resolved has failed with ENOENT
FailedWithENOENT(f) ==
    /\ frames[f].pc = "resolve"
    /\ \E l \in DOMAIN frames[f].res.st :
        frames[f].res.st[l].s \in {"err", "lost"} /\ frames[f].res.st[l].v = Err("ENOENT")

\* something is still to happen in the resolution of the file: a handler is
\* to be called, a promise is to settle, or an error is to be delivered
ResolutionGoesOn(f) ==
    \E l \in DOMAIN frames[f].res.st : frames[f].res.st[l].s \in {"todo", "wait", "err"}

\* C25: load swallows no failure but the ENOENT of reading a file source
\* itself.  A load that returns a config has merged the content of the file
\* that was read and parsed; and once a handler called for that file has
\* failed with an error of code ENOENT, the load is rejected or a step that
\* leads there is still to come: the file is never dropped and the load is
\* not left without an outcome.
C25_OnlyMissingFileSwallowed ==
    \A f \in 1..Len(frames) :
        /\ frames[f].pc = "done" => Has(frames[f].out.val, "k")
        /\ FailedWithENOENT(f) => ResolutionGoesOn(f)

-----------------------------------------------------------------------------
(* Specification SpecGroup: a list of three objects loaded flat, then with  *)
(* its last two objects grouped in a nested list                            *)

GroupValues ==
    { Num(5), Arr(<<Num(1)>>),
      Obj([j \in {"x"} |-> Num(1)]), Obj([j \in {"x"} |-> Num(2)]),
      Obj([j \in {"y"} |-> Num(2)]), Obj([j \in {"x"} |-> Obj([i \in {"z"} |-> Num(3)])]) }
GroupObjs == {EmptyObj} \cup {Obj([j \in {"k"} |-> v]) : v \in GroupValues}

GroupOptions(list) == Options(<<>>, Undef, Undef, Undef, Undef, Hook("replace", <<>>, list), Undef, Undef)

InitGroup ==
    /\ mrg = NoMerge
    /\ store = NoStore
    /\ hlp = NoHelp
    /\ frames = <<>>
    /\ heap = <<>>
    /\ envNodeConfig = Undef
    /\ commandLineNodeConfig = Undef
    /\ procEnv = [NODE_CONFIG |-> Undef, NODE_ENV |-> <<>>]
    /\ procArgv = NoArgs

\* load with the source list [A, B, C]
CallFlat ==
    /\ frames = <<>>
    /\ CallLoadWith({MissingPath}, {GroupOptions(<<a, b, c>>) : a, b, c \in GroupObjs})

\* load with the source list [A, [B, C]] of the same A, B, C
CallGrouped ==
    /\ Len(frames) = 1
    /\ LET flat == frames[1].sources
       IN CallLoadWith({MissingPath}, {GroupOptions(<<flat[1], Arr(<<flat[2], flat[3]>>)>>)})

NextGroup == CallFlat \/ CallGrouped \/ NestedReturn \/ LoadReturn

SpecGroup == InitGroup /\ [][NextGroup]_vars

\* do two values agree in kind: both are objects that agree on every key
\* they share, or neither is an object
RECURSIVE SameKind(_, _)
SameKind(u, v) ==
    IF IsObj(u) /\ IsObj(v)
    THEN \A k \in DOMAIN u.f \cap DOMAIN v.f : SameKind(u.f[k], v.f[k])
    ELSE ~IsObj(u) /\ ~IsObj(v)

BothLoaded == Len(frames) = 2 /\ frames[1].pc = "done" /\ frames[2].pc = "done"

\* C26, as stated: the list [A, [B, C]] gives the same config as the list
\* [A, B, C], for all objects A, B and C.
C26_GroupingTransparent ==
    BothLoaded => frames[2].out = frames[1].out

\* C26, amended: the list [A, [B, C]] gives the same config as the list
\* [A, B, C] for all distinct objects A, B and C in which no key holds an
\* object in one of them and a value that is not an object in another.
C26_GroupingOfSameKinds ==
    BothLoaded
    => LET flat == frames[1].sources
       IN (\A i, j \in 1..3 : SameKind(flat[i], flat[j]))
          => frames[2].out = frames[1].out

\* C26 witness: A, B and C hold objects at the key k, C overrides a key of A
\* and B adds one; both loads have returned the same config
C26_Witness ==
    /\ BothLoaded
    /\ frames[1].sources = << Obj([j \in {"k"} |-> Obj([i \in {"x"} |-> Num(1)])]),
                              Obj([j \in {"k"} |-> Obj([i \in {"y"} |-> Num(2)])]),
                              Obj([j \in {"k"} |-> Obj([i \in {"x"} |-> Num(2)])]) >>
    /\ frames[2].sources[2].t = "arr"
    /\ frames[2].out.val = Obj([j \in {"k"} |-> Obj([i \in {"x", "y"} |-> Num(2)])])
    /\ frames[1].out = frames[2].out

-----------------------------------------------------------------------------
(* Claims on termination, checked under SpecProtocols *)

\* C27: a load in which every file read and every handler that was called
\* has settled (returned a value, null and undefined included, thrown,
\* resolved or rejected) is not left pending: while a file is being resolved
\* either a handler is still to be called, a promise still to settle or an
\* error still to be delivered, or every tagged string has its result and
\* the resolution is about to call back.
C27_NoLoadLeftPending ==
    \A f \in 1..Len(frames) :
        frames[f].pc = "resolve"
        => \/ ResolutionGoesOn(f)
           \/ \A l \in DOMAIN frames[f].res.st : frames[f].res.st[l].s = "ok"

====
